---------------------------- MODULE Spec2Model ----------------------------
(***************************************************************************)
(* A model of the tab-hoarder core: the domain extractor (domain.rs), the  *)
(* domain aggregator (domain.rs), the tab reconciler (operations.rs) and   *)
(* the exported entry point of lib.rs.                                     *)
(*                                                                         *)
(* A Rust String is a sequence of one-character strings; Option<T> is a    *)
(* sequence of length 0 (None) or 1 (Some).                                *)
(***************************************************************************)
EXTENDS Integers, Sequences, FiniteSets, TLC

\* ------------------------------------------------------------------------
\* Bounds of the model
\* ------------------------------------------------------------------------

\* the largest number of dot-separated labels of a generated host
MaxLabels == 3

\* the largest number of open tabs
MaxTabs == 3

\* the largest number of URLs handed to count_domains
MaxUrls == 4

\* the largest n get_top_domains is called with
MaxN == 4

\* how many sessions are created in a run of the store
MaxSessions == 3

\* how many sessions a serialized store holds
MaxStored == 2

\* how many writes of the store the viewer has in flight at a time
MaxWrites == 2

\* how many tabs the window of the popup has open
MaxOpen == 3

\* how many sessions the popup and the store it starts with create together
MaxCollapses == 2

\* how many restores the viewer has in flight at a time
MaxRestores == 2

\* ------------------------------------------------------------------------
\* Strings
\* ------------------------------------------------------------------------

\* The characters of the model, in ascending byte order.
Alphabet ==
    << " ", "-", ".", "/", "0", "1", "2", "8", ":",
       "A", "B", "C", "H", "L", "O", "P", "S", "T",
       "a", "b", "c", "d", "f", "h", "i", "j", "l", "m", "n", "o", "p",
       "s", "t", "u", "v", "w", "x", "z" >>

CharSet == { Alphabet[i] : i \in 1..Len(Alphabet) }

\* the rank of a character in byte order
Code == [ c \in CharSet |-> CHOOSE i \in 1..Len(Alphabet) : Alphabet[i] = c ]

None == << >>
Some(v) == << v >>

\* char::is_ascii_digit
is_ascii_digit(c) == c \in {"0", "1", "2", "8"}

\* char::is_whitespace, on the characters of the model
is_whitespace(c) == c = " "

\* str::to_lowercase, one character
lower_char(c) ==
    CASE c = "A" -> "a"
      [] c = "B" -> "b"
      [] c = "C" -> "c"
      [] c = "H" -> "h"
      [] c = "L" -> "l"
      [] c = "O" -> "o"
      [] c = "P" -> "p"
      [] c = "S" -> "s"
      [] c = "T" -> "t"
      [] OTHER   -> c

to_lowercase(s) == [ i \in 1..Len(s) |-> lower_char(s[i]) ]

\* str::is_empty
is_empty(s) == Len(s) = 0

\* str::trim: the string without its leading and trailing whitespace
RECURSIVE trim_start(_)
trim_start(s) ==
    IF s # << >> /\ is_whitespace(Head(s)) THEN trim_start(Tail(s)) ELSE s

RECURSIVE trim_end(_)
trim_end(s) ==
    IF s # << >> /\ is_whitespace(s[Len(s)])
    THEN trim_end(SubSeq(s, 1, Len(s) - 1))
    ELSE s

trim(s) == trim_end(trim_start(s))

\* str::replacen(from, to, 1): the first match of from only is replaced
RECURSIVE replace_first(_, _, _)
replace_first(s, from, to) ==
    IF Len(s) < Len(from) THEN s
    ELSE IF SubSeq(s, 1, Len(from)) = from
         THEN to \o SubSeq(s, Len(from) + 1, Len(s))
         ELSE << Head(s) >> \o replace_first(Tail(s), from, to)

\* str::replace(from, to): every non-overlapping match of from, scanning
\* from the left, is replaced by to
RECURSIVE replace(_, _, _)
replace(s, from, to) ==
    IF Len(s) < Len(from) THEN s
    ELSE IF SubSeq(s, 1, Len(from)) = from
         THEN to \o replace(SubSeq(s, Len(from) + 1, Len(s)), from, to)
         ELSE << Head(s) >> \o replace(Tail(s), from, to)

\* str::split(sep) collected: the pieces between the occurrences of the
\* character sep; never empty
RECURSIVE split_from(_, _, _)
split_from(s, sep, piece) ==
    IF s = << >> THEN << piece >>
    ELSE IF Head(s) = sep
         THEN << piece >> \o split_from(Tail(s), sep, << >>)
         ELSE split_from(Tail(s), sep, Append(piece, Head(s)))

split(s, sep) == split_from(s, sep, << >>)

\* Iterator::next on a fresh iterator
next(items) == IF items = << >> THEN None ELSE Some(items[1])

\* [&str]::join(sep)
RECURSIVE join(_, _)
join(parts, sep) ==
    IF parts = << >> THEN << >>
    ELSE IF Len(parts) = 1 THEN parts[1]
    ELSE parts[1] \o sep \o join(Tail(parts), sep)

\* Ord::cmp on strings: lexicographic in byte order
RECURSIVE cmp_str(_, _)
cmp_str(a, b) ==
    IF a = << >> /\ b = << >> THEN "Equal"
    ELSE IF a = << >> THEN "Less"
    ELSE IF b = << >> THEN "Greater"
    ELSE IF Code[Head(a)] < Code[Head(b)] THEN "Less"
    ELSE IF Code[Head(a)] > Code[Head(b)] THEN "Greater"
    ELSE cmp_str(Tail(a), Tail(b))

\* Ord::cmp on integers
cmp_int(a, b) == IF a < b THEN "Less" ELSE IF a > b THEN "Greater" ELSE "Equal"

\* Ordering::then_with
then_with(first, second) == IF first = "Equal" THEN second ELSE first

\* ------------------------------------------------------------------------
\* domain.rs
\* ------------------------------------------------------------------------

https == << "h", "t", "t", "p", "s", ":", "/", "/" >>
http  == << "h", "t", "t", "p", ":", "/", "/" >>
ftp   == << "f", "t", "p", ":", "/", "/" >>
dot   == << "." >>
co    == << "c", "o" >>
com   == << "c", "o", "m" >>
localhost == << "l", "o", "c", "a", "l", "h", "o", "s", "t" >>

\* extract_hostname without its check for an empty hostname
extract_hostname_unchecked(url) ==
    LET url_clean == replace(replace(replace(trim(url), https, << >>),
                                     http, << >>), ftp, << >>)
    IN  Some(to_lowercase(split(split(url_clean, "/")[1], ":")[1]))

\* fn extract_hostname(url: &str) -> Option<String>
extract_hostname(url) ==
    LET url_clean == replace(replace(replace(trim(url), https, << >>),
                                     http, << >>), ftp, << >>)
        first == next(split(url_clean, "/"))
    IN  IF first = None THEN None
        ELSE LET hostname_with_port == first[1]
                 second == next(split(hostname_with_port, ":"))
             IN  IF second = None THEN None
                 ELSE LET hostname == to_lowercase(second[1])
                      IN  IF is_empty(hostname) THEN None ELSE Some(hostname)

\* is_ip_address accepting digits only
is_ip_address_no_dots(s) ==
    /\ (IF s = << >> THEN FALSE ELSE is_ascii_digit(s[1]))
    /\ \A i \in 1..Len(s) : is_ascii_digit(s[i])

\* fn is_ip_address(s: &str) -> bool
is_ip_address(s) ==
    /\ (IF s = << >> THEN FALSE ELSE is_ascii_digit(s[1]))
    /\ \A i \in 1..Len(s) : is_ascii_digit(s[i]) \/ s[i] = "."

\* num_parts_of knowing co only
num_parts_of_co_only(parts) ==
    IF /\ Len(parts) >= 3
       /\ Len(parts[Len(parts)]) = 2
       /\ parts[Len(parts) - 1] = co
    THEN 3
    ELSE 2

\* num_parts_of not looking at the second-to-last label
num_parts_of_any_second(parts) ==
    IF Len(parts) >= 3 /\ Len(parts[Len(parts)]) = 2 THEN 3 ELSE 2

\* num_parts_of not asking for three labels
num_parts_of_unguarded(parts) ==
    IF /\ Len(parts[Len(parts)]) = 2
       /\ parts[Len(parts) - 1] \in {co, com}
    THEN 3
    ELSE 2

\* num_parts_of asking for more than three labels
num_parts_of_over_three(parts) ==
    IF /\ Len(parts) > 3
       /\ Len(parts[Len(parts)]) = 2
       /\ parts[Len(parts) - 1] \in {co, com}
    THEN 3
    ELSE 2

\* the number of labels extract_domain keeps
num_parts_of(parts) ==
    IF /\ Len(parts) >= 3
       /\ Len(parts[Len(parts)]) = 2
       /\ parts[Len(parts) - 1] \in {co, com}
    THEN 3
    ELSE 2

\* what a call that panics gives in place of a string: no string of the
\* model, whose characters are single
Panic == << "panic" >>

\* parts[start..]: the labels from position start on, counted from 0; a start
\* below 0 or beyond the end panics, which join hands on
slice_from(parts, start) ==
    IF start < 0 \/ start > Len(parts) THEN << Panic >>
    ELSE SubSeq(parts, start + 1, Len(parts))

\* the closure extract_domain maps over the hostname
domain_of_hostname(hostname) ==
    IF hostname = localhost \/ is_ip_address(hostname) THEN hostname
    ELSE LET parts == split(hostname, ".")
         IN  IF Len(parts) < 2 THEN hostname
             ELSE join(slice_from(parts, Len(parts) - num_parts_of(parts)),
                       dot)

\* pub fn extract_domain(url: &str) -> Option<String>
extract_domain(url) ==
    IF is_empty(url) THEN None
    ELSE LET h == extract_hostname(url)
         IN  IF h = None THEN None ELSE Some(domain_of_hostname(h[1]))


\* slice::sort_by: the stable sort of s, where ord[i, j] is what the
\* comparator answers for s[i] and s[j]; an element moves behind the elements
\* that compare Less than it and behind the earlier ones that compare Equal
sort_by_ties_reversed(s, ord) ==
    LET before(i) ==
            { j \in 1..Len(s) :
                \/ ord[j, i] = "Less"
                \/ ord[j, i] = "Equal" /\ j > i }
    IN  [ k \in 1..Len(s) |->
            s[CHOOSE i \in 1..Len(s) : Cardinality(before(i)) = k - 1] ]

sort_by(s, ord) ==
    LET before(i) ==
            { j \in 1..Len(s) :
                \/ ord[j, i] = "Less"
                \/ ord[j, i] = "Equal" /\ j < i }
    IN  [ k \in 1..Len(s) |->
            s[CHOOSE i \in 1..Len(s) : Cardinality(before(i)) = k - 1] ]

\* Iterator::take(n) collected
take(s, n) == SubSeq(s, 1, IF n < Len(s) THEN n ELSE Len(s))

\* urls.iter().filter_map(|url| extract_domain(url)): the domains of the
\* URLs extraction succeeds on, in order
RECURSIVE filter_map_domains(_)
filter_map_domains(urls) ==
    IF urls = << >> THEN << >>
    ELSE LET d == extract_domain(Head(urls))
         IN  (IF d = None THEN << >> ELSE << d[1] >>)
                 \o filter_map_domains(Tail(urls))

\* HashMap::new()
EmptyMap == [ d \in {} |-> 0 ]

\* count_entry inserting 1 before it increments
count_entry_from_one(counts, d) ==
    [ x \in DOMAIN counts \cup { d } |->
        IF x = d
        THEN (IF d \in DOMAIN counts THEN counts[d] ELSE 1) + 1
        ELSE counts[x] ]

\* *counts.entry(domain).or_insert(0) += 1
count_entry(counts, d) ==
    [ x \in DOMAIN counts \cup { d } |->
        IF x = d
        THEN (IF d \in DOMAIN counts THEN counts[d] ELSE 0) + 1
        ELSE counts[x] ]

\* the fold of count_domains
RECURSIVE count_fold(_, _)
count_fold(domains, counts) ==
    IF domains = << >> THEN counts
    ELSE count_fold(Tail(domains), count_entry(counts, Head(domains)))

\* pub fn count_domains(urls: &[String]) -> HashMap<String, usize>
count_domains(urls) == count_fold(filter_map_domains(urls), EmptyMap)

\* top_cmp without the comparison of the domains
top_cmp_count_only(a, b) == cmp_int(b[2], a[2])

\* the comparator of get_top_domains, on (domain, count) pairs: count
\* descending, then domain ascending
top_cmp(a, b) == then_with(cmp_int(b[2], a[2]), cmp_str(a[1], b[1]))

\* pub fn get_top_domains(counts, n) -> Vec<(String, usize)>; order is the
\* order in which the HashMap iterates over its keys
get_top_domains(counts, n, order) ==
    LET domain_vec == [ k \in 1..Len(order) |-> << order[k], counts[order[k]] >> ]
        ord == [ i \in 1..Len(order), j \in 1..Len(order) |->
                   top_cmp(domain_vec[i], domain_vec[j]) ]
    IN  take(sort_by(domain_vec, ord), n)

\* ------------------------------------------------------------------------
\* lib.rs
\* ------------------------------------------------------------------------

invalid == << "i", "n", "v", "a", "l", "i", "d" >>

\* Option::unwrap_or_else
unwrap_or_else(opt, default) == IF opt = None THEN default ELSE opt[1]

\* #[wasm_bindgen] pub fn extract_domain(url: &str) -> String
lib_extract_domain(u) == unwrap_or_else(extract_domain(u), invalid)

\* ------------------------------------------------------------------------
\* operations.rs
\* ------------------------------------------------------------------------

\* struct TabInfo
TabInfo(id, u, title, pinned, index) ==
    [ id |-> id, url |-> u, title |-> title, pinned |-> pinned, index |-> index ]

\* with_domain giving a tab whose extraction fails the empty domain
RECURSIVE with_domain_or_default(_)
with_domain_or_default(tabs) ==
    IF tabs = << >> THEN << >>
    ELSE << << Head(tabs), unwrap_or_else(extract_domain(Head(tabs).url), << >>) >> >>
             \o with_domain_or_default(Tail(tabs))

\* the filter_map of sort_tabs_by_domain: the tabs extraction succeeds on,
\* each with its domain
RECURSIVE with_domain(_)
with_domain(tabs) ==
    IF tabs = << >> THEN << >>
    ELSE LET d == extract_domain(Head(tabs).url)
         IN  (IF d = None THEN << >> ELSE << << Head(tabs), d[1] >> >>)
                 \o with_domain(Tail(tabs))

\* tab_cmp without the comparison of the URLs
tab_cmp_domain_only(a, b) == cmp_str(a[2], b[2])

\* the comparator of sort_tabs_by_domain, on (tab, domain) pairs: domain,
\* then URL
tab_cmp(a, b) == then_with(cmp_str(a[2], b[2]), cmp_str(a[1].url, b[1].url))

\* pub fn sort_tabs_by_domain(tabs: &[TabInfo]) -> Vec<TabInfo>
sort_tabs_by_domain(tabs) ==
    LET unsorted == with_domain(tabs)
        ord == [ i \in 1..Len(unsorted), j \in 1..Len(unsorted) |->
                   tab_cmp(unsorted[i], unsorted[j]) ]
        tabs_with_domain == sort_by(unsorted, ord)
    IN  [ k \in 1..Len(tabs_with_domain) |-> tabs_with_domain[k][1] ]

\* the loop of make_tabs_unique over the tabs left to visit
RECURSIVE unique_loop(_, _, _, _)
unique_loop(tabs, seen_urls, keep_tabs, remove_ids) ==
    IF tabs = << >> THEN << keep_tabs, remove_ids >>
    ELSE IF Head(tabs).url \in seen_urls
         THEN unique_loop(Tail(tabs), seen_urls, keep_tabs,
                          Append(remove_ids, Head(tabs).id))
         ELSE unique_loop(Tail(tabs), seen_urls \cup { Head(tabs).url },
                          Append(keep_tabs, Head(tabs)), remove_ids)

\* make_tabs_unique remembering the URLs in lower case
RECURSIVE unique_loop_nocase(_, _, _, _)
unique_loop_nocase(tabs, seen_urls, keep_tabs, remove_ids) ==
    IF tabs = << >> THEN << keep_tabs, remove_ids >>
    ELSE IF to_lowercase(Head(tabs).url) \in seen_urls
         THEN unique_loop_nocase(Tail(tabs), seen_urls, keep_tabs,
                                 Append(remove_ids, Head(tabs).id))
         ELSE unique_loop_nocase(Tail(tabs),
                                 seen_urls \cup { to_lowercase(Head(tabs).url) },
                                 Append(keep_tabs, Head(tabs)), remove_ids)

make_tabs_unique_nocase(tabs) == unique_loop_nocase(tabs, {}, << >>, << >>)

\* pub fn make_tabs_unique(tabs: &[TabInfo]) -> (Vec<TabInfo>, Vec<i32>)
make_tabs_unique(tabs) == unique_loop(tabs, {}, << >>, << >>)

\* ------------------------------------------------------------------------
\* The URLs the extractor is called with
\* ------------------------------------------------------------------------

\* the labels hosts are built from: empty, one character, the two suffix
\* markers, a two-character and a digit label
Labels == { << >>, << "a" >>, co, com, << "j", "p" >>, << "1" >> }

LabelSeqs == UNION { [ 1..n -> Labels ] : n \in 0..MaxLabels }

\* hosts with upper-case letters
UpperHosts ==
    { << "A", ".", "C", "O", ".", "j", "p" >>,
      << "a", ".", "B" >>,
      << "L", "o", "c", "a", "l", "h", "o", "s", "t" >> }

\* hosts of four labels
DeepHosts ==
    { << "a", ".", "1", ".", "c", "o", ".", "j", "p" >>,
      << "1", ".", "a", ".", "c", "o", "m", ".", "j", "p" >>,
      << "a", ".", "c", "o", ".", "j", "p", "." >>,
      << "j", "p", ".", "c", "o", ".", "a", ".", "1" >>,
      << "c", "o", ".", "j", "p", ".", "c", "o", ".", "a" >>,
      << "1", ".", "1", ".", "1", ".", "1" >>,
      << ".", "1", ".", "1", ".", "1" >> }

Hosts ==
    { join(ls, dot) : ls \in LabelSeqs } \cup { localhost }
        \cup UpperHosts \cup DeepHosts

Prefixes ==
    { << >>, https, http, ftp,
      << "H", "T", "T", "P", ":", "/", "/" >>,
      << " " >> \o https }

Suffixes ==
    { << >>, << ":", "8", "0" >>, << "/", "p" >>,
      << ":", "8", "0", "/", "p" >>, << " " >> }

\* URLs in which a scheme token occurs more than once, or comes about by
\* the removal of another
RepeatUrls ==
    LET ba == << "b", ".", "a" >>
    IN  { https \o https \o ba,
          ftp \o ftp \o ba,
          https \o http \o ba,
          http \o ba \o << "/" >> \o http \o << "a" >>,
          << "a", "." >> \o http \o http \o << "b" >>,
          << "h", "t" >> \o http \o << "t", "p", ":", "/", "/" >> \o ba }

\* URLs with white space next to the host, inside the string
BlankUrls ==
    LET ba == << "b", ".", "a" >>
    IN  { https \o << " " >> \o ba,
          ba \o << " ", "/", "p" >>,
          https \o ba \o << " ", ":", "8", "0" >> }

Urls ==
    { p \o h \o s : p \in Prefixes, h \in Hosts, s \in Suffixes }
        \cup RepeatUrls \cup BlankUrls

\* the URL pairs the two entry points of the extractor are compared on
ExportUrls ==
    { << >>, https, << " " >>, << "/", "p" >>, << ":", "8", "0" >>,
      invalid, https \o invalid, << "w", "." >> \o invalid,
      << "a" >>, << "b", ".", "a" >>, localhost, << "1", ".", "1" >> }

\* the URLs of the open tabs: one that fails extraction, one domain under
\* three URLs (one of them differing in case only), and a URL that comes
\* last in the order of the URLs and first in the order of the domains
TabUrls ==
    { << >>,
      << "b", ".", "a" >>,
      << "B", ".", "a" >>,
      << "w", ".", "b", ".", "a" >>,
      https \o << "a", ".", "c" >> }

\* the lists of open tabs: identifiers are unique, index is the position
InjectiveIds(n) ==
    { f \in [ 1..n -> 1..MaxTabs ] : \A i, j \in 1..n : f[i] = f[j] => i = j }

\* the tab list with the identifiers ids and the URLs us
TabList(ids, us) ==
    [ i \in DOMAIN us |-> TabInfo(ids[i], us[i], << "t" >>, ids[i] = 1, i - 1) ]

\* the URLs handed to count_domains
CountUrls ==
    { << >>,
      << "b", ".", "a" >>,
      << "w", ".", "b", ".", "a" >>,
      << "z", ".", "c" >>,
      << "1", ".", "1" >> }

UrlLists == UNION { [ 1..n -> CountUrls ] : n \in 0..MaxUrls }

\* the orders in which a HashMap with the keys of counts may iterate
Orders(counts) ==
    { f \in [ 1..Cardinality(DOMAIN counts) -> DOMAIN counts ] :
        \A i, j \in DOMAIN f : f[i] = f[j] => i = j }

\* ------------------------------------------------------------------------
\* State
\* ------------------------------------------------------------------------

VARIABLES
    url,        \* the argument of extract_domain
    domain,     \* what domain::extract_domain returned
    dpc,        \* "call" before the call, "done" after it, "again" after
                \* the call on its result
    again,      \* what domain::extract_domain returned for the domain
    pair_url,   \* two URLs both entry points of the extractor are called on
    pair_opt,   \* per URL: what domain::extract_domain returned, once called
    pair_out,   \* per URL: what the exported extract_domain returned, once called
    tabs,       \* the tab list handed to the reconciler
    sorted,     \* what sort_tabs_by_domain returned, once called
    unique,     \* what make_tabs_unique returned, once called
    urls,       \* the URL list handed to count_domains
    counts,     \* what count_domains returned, once called
    top_n,      \* the n get_top_domains was called with
    top,        \* what get_top_domains returned, once called
    storage,    \* the StorageData the store operations are called on
    clock,      \* how many sessions have been created so far
    fresh_adds, \* whether every add_session so far was given an unused id
    call,       \* the last call on the store: operation, arguments, result
    doc,        \* the StorageData that is serialized
    json,       \* what serializing doc gave, once done
    back,       \* what deserializing json gave, once done
    persisted,  \* what chrome.storage.local holds under the key, if anything
    writes,     \* the StorageData values save_storage has still to write
    state,      \* the ViewState of the viewer
    asked,      \* the ids of the sessions the viewer was asked to delete
    app_state,  \* the AppState of the popup
    task,       \* the operation the popup has spawned: where it is, its locals
    host_call,  \* the last call the popup made on the browser's tabs
    panel,      \* domain_stats and is_domains_expanded of the popup
    jobs,       \* the restores of the viewer that are in flight
    component   \* the part of the program a run exercises

domVars == << url, domain, dpc, again >>
pairVars == << pair_url, pair_opt, pair_out >>
tabVars == << tabs, sorted, unique >>
cntVars == << urls, counts, top_n, top >>
storeVars == << storage, clock, fresh_adds, call >>
serdeVars == << doc, json, back >>
viewVars == << persisted, writes, state, asked >>
popVars == << app_state, task, host_call, panel >>
uiVars == << popVars, jobs >>
coreVars == << domVars, pairVars, tabVars, cntVars, uiVars, component >>
restVars == << storeVars, serdeVars, viewVars, uiVars, component >>

vars == << domVars, pairVars, tabVars, cntVars, restVars >>

\* a result not there yet, and a result that is
Unset == << >>
Set(v) == << v >>

IdleDomain == url = << >> /\ domain = None /\ dpc = "idle" /\ again = None
IdlePair == pair_url = << >> /\ pair_opt = << >> /\ pair_out = << >>
IdleTabs == tabs = << >> /\ sorted = Unset /\ unique = Unset
IdleCounts == urls = << >> /\ counts = Unset /\ top_n = 0 /\ top = Unset
IdleStore ==
    /\ storage = [ sessions |-> << >> ]
    /\ clock = 0
    /\ fresh_adds = TRUE
    /\ call = [ op |-> "idle", id |-> "", name |-> "", ret |-> FALSE,
                got |-> << >>, len |-> 0 ]
IdleSerde == doc = [ sessions |-> << >> ] /\ json = Unset /\ back = Unset
IdleView ==
    persisted = None /\ writes = << >> /\ state = "None" /\ asked = {}
NoTask ==
    [ op |-> "none", pc |-> "idle", unique_tabs |-> << >>, sorted |-> << >>,
      session |-> None, storage |-> None ]
NoHostCall == [ fn |-> "none", ids |-> << >> ]
IdlePopup ==
    /\ app_state = "None"
    /\ task = NoTask
    /\ host_call = NoHostCall
    /\ panel = [ domain_stats |-> << >>, is_domains_expanded |-> FALSE ]
IdleUi == IdlePopup /\ jobs = << >>
IdleCore == IdleDomain /\ IdlePair /\ IdleTabs /\ IdleCounts /\ IdleUi
IdleRest == IdleStore /\ IdleSerde /\ IdleView /\ IdleUi

\* ------------------------------------------------------------------------
\* The extractor called on one URL
\* ------------------------------------------------------------------------

InitDomain ==
    /\ component = "domain"
    /\ url \in Urls
    /\ domain = None
    /\ dpc = "call"
    /\ again = None
    /\ IdlePair /\ IdleTabs /\ IdleCounts /\ IdleRest

\* a call of domain::extract_domain(url)
ExtractDomain ==
    /\ dpc = "call"
    /\ domain' = extract_domain(url)
    /\ dpc' = "done"
    /\ UNCHANGED << url, again, pairVars, tabVars, cntVars, restVars >>

\* a call of domain::extract_domain on the domain the first call returned
ReExtract ==
    /\ dpc = "done"
    /\ domain # None
    /\ again' = extract_domain(domain[1])
    /\ dpc' = "again"
    /\ UNCHANGED << url, domain, pairVars, tabVars, cntVars, restVars >>

NextDomain == ExtractDomain \/ ReExtract

SpecDomain == InitDomain /\ [][NextDomain]_vars

\* ------------------------------------------------------------------------
\* Both entry points of the extractor called on two URLs
\* ------------------------------------------------------------------------

InitPair ==
    /\ component = "exported"
    /\ pair_url \in [ 1..2 -> ExportUrls ]
    /\ pair_opt = << Unset, Unset >>
    /\ pair_out = << Unset, Unset >>
    /\ IdleDomain /\ IdleTabs /\ IdleCounts /\ IdleRest

\* a call of domain::extract_domain on the k-th URL
DomainExtract(k) ==
    /\ pair_opt[k] = Unset
    /\ pair_opt' = [ pair_opt EXCEPT ![k] = Set(extract_domain(pair_url[k])) ]
    /\ UNCHANGED << pair_url, pair_out, domVars, tabVars, cntVars, restVars >>

\* a call of the exported extract_domain of lib.rs on the k-th URL
ExportedExtract(k) ==
    /\ pair_out[k] = Unset
    /\ pair_out' = [ pair_out EXCEPT ![k] = Set(lib_extract_domain(pair_url[k])) ]
    /\ UNCHANGED << pair_url, pair_opt, domVars, tabVars, cntVars, restVars >>

NextPair ==
    \/ \E k \in 1..2 : DomainExtract(k)
    \/ \E k \in 1..2 : ExportedExtract(k)

SpecPair == InitPair /\ [][NextPair]_vars

\* ------------------------------------------------------------------------
\* The reconciler called on a tab list
\* ------------------------------------------------------------------------

InitTabs ==
    /\ component = "reconciler"
    /\ \E n \in 0..MaxTabs :
        \E ids \in InjectiveIds(n), us \in [ 1..n -> TabUrls ] :
            tabs = TabList(ids, us)
    /\ sorted = Unset
    /\ unique = Unset
    /\ IdleDomain /\ IdlePair /\ IdleCounts /\ IdleRest

\* a call of sort_tabs_by_domain(&tabs)
SortTabsByDomain ==
    /\ sorted = Unset
    /\ sorted' = Set(sort_tabs_by_domain(tabs))
    /\ UNCHANGED << tabs, unique, domVars, pairVars, cntVars, restVars >>

\* a call of make_tabs_unique(&tabs)
MakeTabsUnique ==
    /\ unique = Unset
    /\ unique' = Set(make_tabs_unique(tabs))
    /\ UNCHANGED << tabs, sorted, domVars, pairVars, cntVars, restVars >>

NextTabs == SortTabsByDomain \/ MakeTabsUnique

SpecTabs == InitTabs /\ [][NextTabs]_vars

\* ------------------------------------------------------------------------
\* The aggregator called on a URL list
\* ------------------------------------------------------------------------

InitCounts ==
    /\ component = "aggregator"
    /\ urls \in UrlLists
    /\ counts = Unset
    /\ top_n = 0
    /\ top = Unset
    /\ IdleDomain /\ IdlePair /\ IdleTabs /\ IdleRest

\* a call of count_domains(&urls)
CountDomains ==
    /\ counts = Unset
    /\ counts' = Set(count_domains(urls))
    /\ UNCHANGED << urls, top_n, top, domVars, pairVars, tabVars, restVars >>

\* a call of get_top_domains(&counts, n), the map iterating in some order
GetTopDomains ==
    /\ counts # Unset
    /\ top = Unset
    /\ \E n \in 0..MaxN :
        \E order \in Orders(counts[1]) :
            /\ top' = Set(get_top_domains(counts[1], n, order))
            /\ top_n' = n
    /\ UNCHANGED << urls, counts, domVars, pairVars, tabVars, restVars >>

NextCounts == CountDomains \/ GetTopDomains

SpecCounts == InitCounts /\ [][NextCounts]_vars

\* ------------------------------------------------------------------------
\* Hostnames described by their dots, for the statements about labels
\* ------------------------------------------------------------------------

\* the positions of the dots of h
DotIdx(h) == { i \in 1..Len(h) : h[i] = "." }

\* the number of dot-separated labels of h
NumLabels(h) == Cardinality(DotIdx(h)) + 1

\* the position of the k-th dot from the end of h; 0 when h has fewer dots
DotFromEnd(h, k) ==
    IF Cardinality(DotIdx(h)) < k THEN 0
    ELSE CHOOSE i \in DotIdx(h) : Cardinality({ j \in DotIdx(h) : j > i }) = k - 1

\* the k-th label from the end of h
LabelFromEnd(h, k) ==
    SubSeq(h, DotFromEnd(h, k) + 1,
           IF k = 1 THEN Len(h) ELSE DotFromEnd(h, k - 1) - 1)

\* the last k labels of h with the dots between them
LastLabels(h, k) == SubSeq(h, DotFromEnd(h, k) + 1, Len(h))

\* at least 3 labels, a last label of 2 characters, and co or com before it
ThreeLabelRule(h) ==
    /\ NumLabels(h) >= 3
    /\ Len(LabelFromEnd(h, 1)) = 2
    /\ LabelFromEnd(h, 2) \in { co, com }

OnlyDigitsAndDots(h) == \A i \in 1..Len(h) : h[i] \in { "0", "1", "2", "8", "." }

\* what is_ip_address is documented to accept: a first character that is a
\* digit, and digits and dots only
IpLike(h) == h # << >> /\ h[1] # "." /\ OnlyDigitsAndDots(h)

\* the hostname of the URL the extractor was called with
HostnameOfUrl == extract_hostname(url)

Called == dpc = "done"

\* ------------------------------------------------------------------------
\* C4
\* ------------------------------------------------------------------------

ThreeLabelsKept(h, d) ==
    (h # None /\ ThreeLabelRule(h[1])) => d = Some(LastLabels(h[1], 3))

\* C4: when the hostname of the URL has at least 3 labels, a last label of
\* exactly 2 characters and a second-to-last label co or com, extract_domain
\* returns exactly the last 3 labels of the hostname joined by dots.
C4_ThreeLabels == Called => ThreeLabelsKept(HostnameOfUrl, domain)

FourToThree(h, d) ==
    /\ h # None
    /\ ThreeLabelRule(h[1])
    /\ NumLabels(h[1]) = 4
    /\ d # None
    /\ Len(d[1]) < Len(h[1])
    /\ NumLabels(d[1]) = 3

\* a call on a host of four labels under co.jp or com.jp, where the first
\* label was cut off
C4_Witness == Called /\ FourToThree(HostnameOfUrl, domain)

\* ------------------------------------------------------------------------
\* C5
\* ------------------------------------------------------------------------

TwoLabelsKept(h, d) ==
    (/\ h # None
     /\ NumLabels(h[1]) >= 2
     /\ h[1] # localhost
     /\ ~IpLike(h[1])
     /\ ~ThreeLabelRule(h[1]))
        => /\ d = Some(LastLabels(h[1], 2))
           /\ NumLabels(h[1]) = 2 => d = h

\* C5: when the hostname has at least 2 labels, is not localhost and not an
\* IP-like literal, and does not satisfy the 3-label rule, extract_domain
\* returns exactly its last 2 labels joined by a dot; a hostname of exactly
\* two labels is returned unchanged.
C5_TwoLabels == Called => TwoLabelsKept(HostnameOfUrl, domain)

ManyToTwo(h, d) ==
    /\ h # None
    /\ NumLabels(h[1]) >= 3
    /\ ~IpLike(h[1])
    /\ ~ThreeLabelRule(h[1])
    /\ d # None
    /\ NumLabels(d[1]) = 2
    /\ d # h

\* a call on a host of three or more labels outside the 3-label rule, where
\* labels were cut off
C5_Witness == Called /\ ManyToTwo(HostnameOfUrl, domain)

\* ------------------------------------------------------------------------
\* C6
\* ------------------------------------------------------------------------

DigitsAndDotsKept(h, d) ==
    (h # None /\ (h[1] = localhost \/ OnlyDigitsAndDots(h[1]))) => d = h

\* C6 as stated: when the hostname is localhost or any non-empty string of
\* ASCII digits and dots only, extract_domain returns it unchanged.
C6_Original == Called => DigitsAndDotsKept(HostnameOfUrl, domain)

IpLikeKept(h, d) ==
    (h # None /\ (h[1] = localhost \/ IpLike(h[1]))) => d = h

\* C6 as amended: when the hostname is localhost or a string of ASCII digits
\* and dots only whose first character is a digit, extract_domain returns it
\* unchanged, with no label trimming.
C6_Passthrough == Called => IpLikeKept(HostnameOfUrl, domain)

LongIpKept(h, d) ==
    /\ h # None
    /\ IpLike(h[1])
    /\ NumLabels(h[1]) >= 3
    /\ d = h

\* a call on an IP-like host of three or more labels, returned whole
C6_Witness == Called /\ LongIpKept(HostnameOfUrl, domain)

\* ------------------------------------------------------------------------
\* C7
\* ------------------------------------------------------------------------

\* s up to, not including, the first occurrence of the character c
UpTo(s, c) ==
    IF \E i \in 1..Len(s) : s[i] = c
    THEN SubSeq(s, 1, (CHOOSE i \in 1..Len(s) :
                          s[i] = c /\ \A j \in 1..(i - 1) : s[j] # c) - 1)
    ELSE s

\* s with the three scheme tokens removed
WithoutSchemes(s) ==
    replace(replace(replace(s, https, << >>), http, << >>), ftp, << >>)

\* the hostname left after scheme removal, cutting at the first / and
\* cutting at the first :
PipelineHost(s) == UpTo(UpTo(WithoutSchemes(s), "/"), ":")

\* s without its leading and trailing blanks
Trimmed(s) ==
    IF \A i \in 1..Len(s) : s[i] = " " THEN << >>
    ELSE SubSeq(s,
                CHOOSE i \in 1..Len(s) :
                    s[i] # " " /\ \A j \in 1..(i - 1) : s[j] = " ",
                CHOOSE i \in 1..Len(s) :
                    s[i] # " " /\ \A j \in (i + 1)..Len(s) : s[j] = " ")

\* C7 as stated: extract_domain fails exactly when the hostname left after
\* scheme removal, cutting at the first / and cutting at the first : is
\* empty, and returns a non-empty domain otherwise.
C7_Original ==
    Called => /\ (domain = None) <=> (PipelineHost(url) = << >>)
              /\ domain # None => domain[1] # << >>

\* C7 as amended: extract_domain fails exactly when the hostname left after
\* trimming surrounding whitespace, scheme removal, cutting at the first /
\* and cutting at the first : is empty (so for the empty string and for
\* https://), and returns a non-empty domain otherwise.
C7_FailsIffEmptyHost ==
    Called => /\ (domain = None) <=> (PipelineHost(Trimmed(url)) = << >>)
              /\ domain # None => domain[1] # << >>

\* a failed call on a non-empty URL: a scheme with nothing after it
C7_Witness ==
    /\ Called
    /\ url = https
    /\ domain = None

\* ------------------------------------------------------------------------
\* C8
\* ------------------------------------------------------------------------

BothCalled(k) == pair_opt[k] # Unset /\ pair_out[k] # Unset

\* C8: at every entry point of the extractor, a URL on which extraction
\* fails and a URL on which it succeeds never get the same result: the
\* failure marker never collides with a real domain.
C8_FailureDistinct ==
    \A i, j \in 1..2 :
        (/\ pair_url # << >>
         /\ BothCalled(i) /\ BothCalled(j)
         /\ pair_opt[i][1] = None
         /\ pair_opt[j][1] # None)
            => /\ pair_opt[i] # pair_opt[j]
               /\ pair_out[i] # pair_out[j]

\* ------------------------------------------------------------------------
\* Sequences described by their indices, for the statements about lists
\* ------------------------------------------------------------------------

\* the k-th smallest element of the set of numbers I
Nth(I, k) == CHOOSE i \in I : Cardinality({ j \in I : j < i }) = k - 1

\* the elements of s at the indices I, in the order of s
At(s, I) == [ k \in 1..Cardinality(I) |-> s[Nth(I, k)] ]

\* how often x occurs in s
Occ(s, x) == Cardinality({ k \in 1..Len(s) : s[k] = x })

\* a comes strictly before b in byte-wise lexicographic order: a is a proper
\* prefix of b, or a has the smaller character where they first differ
LexLess(a, b) ==
    \/ Len(a) < Len(b) /\ \A i \in 1..Len(a) : a[i] = b[i]
    \/ \E i \in 1..Len(a) :
        /\ i <= Len(b)
        /\ Code[a[i]] < Code[b[i]]
        /\ \A j \in 1..(i - 1) : a[j] = b[j]

\* ------------------------------------------------------------------------
\* C1
\* ------------------------------------------------------------------------

\* the positions of the tabs no earlier tab has the URL of
FirstOfUrl(ts) ==
    { i \in 1..Len(ts) : \A j \in 1..(i - 1) : ts[j].url # ts[i].url }

\* the positions of the tabs an earlier tab has the URL of
RepeatOfUrl(ts) ==
    { i \in 1..Len(ts) : \E j \in 1..(i - 1) : ts[j].url = ts[i].url }

IdsOf(ts) == [ k \in 1..Len(ts) |-> ts[k].id ]

UniquePlan(ts, keep, remove) ==
    /\ keep = At(ts, FirstOfUrl(ts))
    /\ remove = IdsOf(At(ts, RepeatOfUrl(ts)))
    /\ Len(keep) + Len(remove) = Len(ts)
    /\ \A i, j \in 1..Len(keep) : keep[i].url = keep[j].url => i = j

\* C1: make_tabs_unique keeps exactly the first tab of each distinct URL
\* string, in input order, and reports exactly the identifiers of the later
\* tabs whose URL equals that of an earlier tab, in input order; kept and
\* removed partition the input and the kept URLs are pairwise distinct.
C1_FirstOfEachUrl ==
    unique # Unset => UniquePlan(tabs, unique[1][1], unique[1][2])

\* a call that removed a tab, kept a tab after the removed one, and kept two
\* tabs whose URLs differ in case only
C1_Witness ==
    /\ unique # Unset
    /\ Len(unique[1][2]) >= 1
    /\ Len(unique[1][1]) = 2
    /\ Len(tabs) = 3
    /\ tabs[3] = unique[1][1][2]
    /\ to_lowercase(tabs[3].url) = to_lowercase(tabs[1].url)

\* ------------------------------------------------------------------------
\* C2
\* ------------------------------------------------------------------------

\* the (domain, url) key of x is at most that of y
KeyLeq(x, y) ==
    LET dx == extract_domain(x.url)
        dy == extract_domain(y.url)
    IN  /\ dx # None
        /\ dy # None
        /\ \/ LexLess(dx[1], dy[1])
           \/ dx = dy /\ (LexLess(x.url, y.url) \/ x.url = y.url)

OrderedByKey(out) ==
    /\ \A k \in 1..(Len(out) - 1) : KeyLeq(out[k], out[k + 1])
    /\ \A i, j, k \in 1..Len(out) :
        (i < j /\ j < k
            /\ extract_domain(out[i].url) = extract_domain(out[k].url))
            => extract_domain(out[j].url) = extract_domain(out[i].url)

\* C2: the output of sort_tabs_by_domain is ordered by the key (domain
\* ascending, then URL ascending): each tab's key is at most the key of the
\* tab after it, so the tabs of one domain are contiguous.
C2_SortedByDomainThenUrl == sorted # Unset => OrderedByKey(sorted[1])

\* a call that moved the tab with the smallest domain and the largest URL to
\* the front, and ordered two tabs of one domain by URL
C2_Witness ==
    /\ sorted # Unset
    /\ Len(sorted[1]) = 3
    /\ LexLess(sorted[1][3].url, sorted[1][1].url)
    /\ extract_domain(sorted[1][2].url) = extract_domain(sorted[1][3].url)
    /\ sorted[1][2].url # sorted[1][3].url
    /\ sorted[1] # tabs

\* ------------------------------------------------------------------------
\* C3
\* ------------------------------------------------------------------------

\* the positions of the tabs whose URL extraction succeeds on
Extractable(ts) == { i \in 1..Len(ts) : extract_domain(ts[i].url) # None }

PermutationOfExtractable(ts, out) ==
    /\ Len(out) = Cardinality(Extractable(ts))
    /\ \A k \in 1..Len(out) : \E i \in Extractable(ts) : out[k] = ts[i]
    /\ \A i \in Extractable(ts) : Occ(out, ts[i]) = Occ(ts, ts[i])
    /\ \A i \in 1..Len(ts) : i \notin Extractable(ts) => Occ(out, ts[i]) = 0

\* C3: the output of sort_tabs_by_domain is a permutation of exactly the
\* input tabs whose URL extraction succeeds: a tab whose URL fails is absent,
\* every other tab appears exactly once with all its fields unchanged, and
\* no tab is invented.
C3_PermutationOfExtractable ==
    sorted # Unset => PermutationOfExtractable(tabs, sorted[1])

\* a call that dropped a tab and reordered the others
C3_Witness ==
    /\ sorted # Unset
    /\ Len(tabs) = 3
    /\ Len(sorted[1]) = 2
    /\ sorted[1] # At(tabs, Extractable(tabs))

\* ------------------------------------------------------------------------
\* C9
\* ------------------------------------------------------------------------

\* the positions of the URLs whose domain is d
WithDomain(us, d) == { i \in 1..Len(us) : extract_domain(us[i]) = Some(d) }

RECURSIVE SumOver(_, _)
SumOver(f, D) ==
    IF D = {} THEN 0
    ELSE LET d == CHOOSE x \in D : TRUE IN f[d] + SumOver(f, D \ { d })

CountsOf(us, c) ==
    /\ DOMAIN c = { extract_domain(us[i])[1] :
                      i \in { j \in 1..Len(us) : extract_domain(us[j]) # None } }
    /\ \A d \in DOMAIN c : c[d] = Cardinality(WithDomain(us, d)) /\ c[d] > 0
    /\ SumOver(c, DOMAIN c)
         = Cardinality({ i \in 1..Len(us) : extract_domain(us[i]) # None })

\* C9: count_domains maps each key d to exactly the number of input URLs
\* whose domain is d; URLs whose extraction fails contribute to no entry, no
\* key has count 0, and the counts sum to the number of URLs extraction
\* succeeds on.
C9_CountsPerDomain == counts # Unset => CountsOf(urls, counts[1])

\* a call that counted two different URLs of one domain together and
\* skipped a URL
C9_Witness ==
    /\ counts # Unset
    /\ \E i, j, k \in 1..Len(urls) :
        /\ urls[i] # urls[j]
        /\ extract_domain(urls[i]) = extract_domain(urls[j])
        /\ extract_domain(urls[i]) # None
        /\ counts[1][extract_domain(urls[i])[1]] >= 2
        /\ extract_domain(urls[k]) = None
    /\ Cardinality(DOMAIN counts[1]) >= 2

\* ------------------------------------------------------------------------
\* C10
\* ------------------------------------------------------------------------

Entries(c) == { << d, c[d] >> : d \in DOMAIN c }

\* entry a ranks before entry b: the larger count, or the same count and the
\* smaller domain
RanksBefore(a, b) == a[2] > b[2] \/ (a[2] = b[2] /\ LexLess(a[1], b[1]))

TopOf(c, n, t) ==
    /\ Len(t) = (IF n < Cardinality(DOMAIN c) THEN n ELSE Cardinality(DOMAIN c))
    /\ \A k \in 1..Len(t) : t[k] \in Entries(c)
    /\ \A k \in 1..(Len(t) - 1) : RanksBefore(t[k], t[k + 1])
    /\ \A e \in Entries(c) :
        (\A k \in 1..Len(t) : t[k] # e) => \A k \in 1..Len(t) : RanksBefore(t[k], e)

\* C10: get_top_domains returns the first min(n, number of entries) entries
\* of the mapping in the order count descending, then domain ascending, so
\* the result is the same for every iteration order of the mapping.
C10_TopByCountThenDomain ==
    top # Unset => TopOf(counts[1], top_n, top[1])

\* a call that cut the ranking short and ranked two entries of equal count
C10_Witness ==
    /\ top # Unset
    /\ Len(top[1]) = 2
    /\ Cardinality(DOMAIN counts[1]) = 3
    /\ top[1][1][2] = top[1][2][2]

\* ------------------------------------------------------------------------
\* tab_data.rs, storage.rs: the session store
\* ------------------------------------------------------------------------

SavedTab(u, title, d, pinned) ==
    [ url |-> u, title |-> title, domain |-> d, pinned |-> pinned ]

CollapsedSession(id, name, timestamp, saved) ==
    [ id |-> id, name |-> name, timestamp |-> timestamp, tabs |-> saved ]

\* StorageData::new()
new == [ sessions |-> << >> ]

\* sessions.push(session), twice
add_session_twice(self, session) ==
    [ self EXCEPT !.sessions = Append(Append(@, session), session) ]

\* sessions.insert(0, session)
add_session_front(self, session) ==
    [ self EXCEPT !.sessions = << session >> \o @ ]

\* StorageData::add_session: sessions.push(session)
add_session(self, session) ==
    [ self EXCEPT !.sessions = Append(@, session) ]

\* sessions.retain(|s| s.id != session_id)
retain_other_ids(sessions, session_id) ==
    LET other(s) == s.id # session_id
    IN  SelectSeq(sessions, other)

\* sessions.iter().position(|s| s.id == session_id), 0 when there is none
position(sessions, session_id) ==
    IF \E i \in 1..Len(sessions) : sessions[i].id = session_id
    THEN CHOOSE i \in 1..Len(sessions) :
            /\ sessions[i].id = session_id
            /\ \A j \in 1..(i - 1) : sessions[j].id # session_id
    ELSE 0

\* remove_session taking out the first session with the id only
remove_session_first(self, session_id) ==
    LET i == position(self.sessions, session_id)
        kept == IF i = 0 THEN self.sessions
                ELSE SubSeq(self.sessions, 1, i - 1)
                        \o SubSeq(self.sessions, i + 1, Len(self.sessions))
    IN  << [ self EXCEPT !.sessions = kept ], Len(kept) < Len(self.sessions) >>

\* remove_session comparing the lengths with <=
remove_session_le(self, session_id) ==
    LET kept == retain_other_ids(self.sessions, session_id)
    IN  << [ self EXCEPT !.sessions = kept ], Len(kept) <= Len(self.sessions) >>

\* StorageData::remove_session: the store after the call, and what it returns
remove_session(self, session_id) ==
    LET original_len == Len(self.sessions)
        kept == retain_other_ids(self.sessions, session_id)
    IN  << [ self EXCEPT !.sessions = kept ], Len(kept) < original_len >>

\* get_session finding from the back
get_session_last(self, session_id) ==
    LET m == { i \in 1..Len(self.sessions) : self.sessions[i].id = session_id }
    IN  IF m = {} THEN None
        ELSE Some(self.sessions[CHOOSE i \in m : \A j \in m : j <= i])

\* StorageData::get_session: sessions.iter().find(|s| s.id == session_id)
get_session(self, session_id) ==
    LET i == position(self.sessions, session_id)
    IN  IF i = 0 THEN None ELSE Some(self.sessions[i])

\* update_session_name renaming every session with the id
update_session_name_all(self, session_id, new_name) ==
    << [ self EXCEPT !.sessions =
            [ i \in 1..Len(@) |->
                IF @[i].id = session_id
                THEN [ @[i] EXCEPT !.name = new_name ]
                ELSE @[i] ] ],
       position(self.sessions, session_id) # 0 >>

\* StorageData::update_session_name: the store after the call, and what it
\* returns
update_session_name(self, session_id, new_name) ==
    LET i == position(self.sessions, session_id)
    IN  IF i = 0
        THEN << self, FALSE >>
        ELSE << [ self EXCEPT !.sessions[i].name = new_name ], TRUE >>

\* ------------------------------------------------------------------------
\* The store operations called in any order on a store made by new()
\* ------------------------------------------------------------------------

\* the identifiers callers pass, the name a session is created with and the
\* names it is renamed to, and the tab lists sessions are created with
SessionIds == { "s1", "s2" }
CreatedName == "Session"
NewNames == { "", "work" }
SavedTabLists ==
    { << >>,
      << SavedTab(<< "b", ".", "a" >>, << "t" >>, << "b", ".", "a" >>, FALSE) >> }

\* the record of a call: ret is what a bool-returning operation returned,
\* got what get_session returned, len how many sessions the store held before
Call(op, id, name, ret, got) ==
    [ op |-> op, id |-> id, name |-> name, ret |-> ret, got |-> got,
      len |-> Len(storage.sessions) ]

HasId(sessions, id) == \E i \in 1..Len(sessions) : sessions[i].id = id

InitStore ==
    /\ component = "store"
    /\ storage = new
    /\ clock = 0
    /\ fresh_adds = TRUE
    /\ call = Call("new", "", "", FALSE, None)
    /\ IdleCore /\ IdleSerde /\ IdleView

\* a call of add_session with a session created now
AddSession ==
    /\ clock < MaxSessions
    /\ \E id \in SessionIds, saved \in SavedTabLists :
        /\ storage' = add_session(storage,
                        CollapsedSession(id, CreatedName, clock + 1, saved))
        /\ fresh_adds' = (fresh_adds /\ ~HasId(storage.sessions, id))
        /\ call' = Call("add", id, CreatedName, FALSE, None)
    /\ clock' = clock + 1
    /\ UNCHANGED << coreVars, serdeVars, viewVars >>

\* a call of remove_session(session_id)
RemoveSession ==
    /\ \E id \in SessionIds :
        LET r == remove_session(storage, id)
        IN  /\ storage' = r[1]
            /\ call' = Call("remove", id, "", r[2], None)
    /\ UNCHANGED << clock, fresh_adds, coreVars, serdeVars, viewVars >>

\* a call of get_session(session_id)
GetSession ==
    /\ \E id \in SessionIds :
        call' = Call("get", id, "", FALSE, get_session(storage, id))
    /\ UNCHANGED << storage, clock, fresh_adds,
                    coreVars, serdeVars, viewVars >>

\* a call of update_session_name(session_id, new_name)
UpdateSessionName ==
    /\ \E id \in SessionIds, new_name \in NewNames :
        LET r == update_session_name(storage, id, new_name)
        IN  /\ storage' = r[1]
            /\ call' = Call("update", id, new_name, r[2], None)
    /\ UNCHANGED << clock, fresh_adds, coreVars, serdeVars, viewVars >>

NextStore ==
    \/ AddSession
    \/ RemoveSession
    \/ GetSession
    \/ UpdateSessionName

SpecStore == InitStore /\ [][NextStore]_vars

\* ------------------------------------------------------------------------
\* Statements about the store operations
\* ------------------------------------------------------------------------

\* the positions of the sessions of a store that carry the id, and the others
Matching(sessions, id) == { i \in 1..Len(sessions) : sessions[i].id = id }
Others(sessions, id) == { i \in 1..Len(sessions) : sessions[i].id # id }

\* the first position of a session with the id; only used where there is one
FirstMatching(sessions, id) ==
    CHOOSE i \in Matching(sessions, id) : \A j \in Matching(sessions, id) : i <= j

\* after is before with the sessions at the positions in gone taken out, the
\* rest as they were and in their order
TakenOut(before, gone, after) ==
    LET kept == (1..Len(before)) \ gone
    IN  /\ Len(after) = Cardinality(kept)
        /\ \A i \in kept :
            after[Cardinality({ j \in kept : j <= i })] = before[i]

\* a step that is a call of the operation
Calls(op) == call'.op = op

\* C11, as stated: remove_session(id) takes out the first session with the
\* id and no other, and returns true exactly when it took one out, also in a
\* store holding several sessions with the id.
RemovesFirstOnly ==
    Calls("remove") =>
        LET m == Matching(storage.sessions, call'.id)
        IN  /\ call'.ret = (m # {})
            /\ IF m = {}
               THEN storage' = storage
               ELSE TakenOut(storage.sessions,
                             { FirstMatching(storage.sessions, call'.id) },
                             storage'.sessions)
C11_Original == [][RemovesFirstOnly]_vars

\* C11, amended: remove_session(id) takes out every session with the id and
\* no other, the rest staying as they were and in their order, and returns
\* true exactly when it took at least one out.
RemovesEveryMatch ==
    Calls("remove") =>
        LET m == Matching(storage.sessions, call'.id)
        IN  /\ call'.ret = (m # {})
            /\ TakenOut(storage.sessions, m, storage'.sessions)
C11_RemovesEveryMatch == [][RemovesEveryMatch]_vars

\* a removal took two sessions with the same id out at once and left another
C11_Witness ==
    /\ call.op = "remove"
    /\ call.ret
    /\ call.len = 3
    /\ Len(storage.sessions) = 1

\* C12: remove_session and update_session_name, given an id no session of
\* the store carries, return false and leave the store as it was.
UnknownIdNoChange ==
    ((Calls("remove") \/ Calls("update"))
        /\ Matching(storage.sessions, call'.id) = {})
    => (~call'.ret /\ storage' = storage)
C12_UnknownIdNoChange == [][UnknownIdNoChange]_vars

\* a rename with an unknown id was refused on a store holding two sessions
C12_Witness ==
    /\ call.op = "update"
    /\ ~call.ret
    /\ Len(storage.sessions) = 2
    /\ Matching(storage.sessions, call.id) = {}

\* a is b but for the name, which is name
Renamed(a, b, name) ==
    /\ a.id = b.id
    /\ a.timestamp = b.timestamp
    /\ a.tabs = b.tabs
    /\ a.name = name

\* the sessions of both stores that were created at the same time carry the
\* same id
SameIds(before, after) ==
    \A i \in 1..Len(before), j \in 1..Len(after) :
        before[i].timestamp = after[j].timestamp => before[i].id = after[j].id

\* C13: update_session_name(id, new_name) returns true exactly when a
\* session carries the id, and then gives the first such session the new
\* name and changes nothing else: not its id, timestamp or tabs, not another
\* session, not the number or order of the sessions. No operation changes
\* the id of a session.
RenamesFirstOnly ==
    Calls("update") =>
        LET m == Matching(storage.sessions, call'.id)
        IN  /\ call'.ret = (m # {})
            /\ Len(storage'.sessions) = Len(storage.sessions)
            /\ \A i \in 1..Len(storage.sessions) :
                IF m # {} /\ i = FirstMatching(storage.sessions, call'.id)
                THEN Renamed(storage'.sessions[i], storage.sessions[i],
                             call'.name)
                ELSE storage'.sessions[i] = storage.sessions[i]
C13_RenamesFirstOnly ==
    [][RenamesFirstOnly /\ SameIds(storage.sessions, storage'.sessions)]_vars

\* a session was renamed to the empty string while a later session with the
\* same id kept the name it was created with
C13_Witness ==
    /\ call.op = "update"
    /\ call.ret
    /\ call.name = ""
    /\ Len(storage.sessions) = 2
    /\ storage.sessions[1].id = call.id
    /\ storage.sessions[2].id = call.id
    /\ storage.sessions[1].name = ""
    /\ storage.sessions[2].name = CreatedName

\* C14: get_session(id) returns the first session of the store that carries
\* the id, returns None exactly when no session carries it, and leaves the
\* store as it was.
GetsFirst ==
    Calls("get") =>
        LET m == Matching(storage.sessions, call'.id)
        IN  /\ storage' = storage
            /\ (call'.got = None) = (m = {})
            /\ m # {} =>
                call'.got
                    = Some(storage.sessions[FirstMatching(storage.sessions,
                                                          call'.id)])
C14_GetsFirst == [][GetsFirst]_vars

\* a lookup found the first of two sessions with the same id
C14_Witness ==
    /\ call.op = "get"
    /\ call.got # None
    /\ Cardinality(Matching(storage.sessions, call.id)) = 2
    /\ call.got[1].timestamp < storage.sessions[Len(storage.sessions)].timestamp

UniqueIds(sessions) ==
    \A i, j \in 1..Len(sessions) : sessions[i].id = sessions[j].id => i = j

\* C15, as stated: after any calls of add_session, remove_session and
\* update_session_name on a store made by new(), no two sessions share an id.
C15_Original == UniqueIds(storage.sessions)

\* C15, amended: after any calls of add_session, remove_session and
\* update_session_name on a store made by new() in which every add_session
\* was given an id that no session of the store carried, no two sessions
\* share an id.
C15_UniqueWhenAddedFresh == fresh_adds => UniqueIds(storage.sessions)

\* three sessions were added with ids not in the store, one of them after a
\* removal, and two are held
C15_Witness ==
    /\ fresh_adds
    /\ clock = 3
    /\ Len(storage.sessions) = 2

\* the sessions are in the order they were created in
InCreationOrder(sessions) ==
    \A i, j \in 1..Len(sessions) :
        i < j => sessions[i].timestamp < sessions[j].timestamp

\* add_session put the session it was given at the end and left the others
Appended ==
    Calls("add") =>
        /\ Len(storage'.sessions) = Len(storage.sessions) + 1
        /\ \A i \in 1..Len(storage.sessions) :
            storage'.sessions[i] = storage.sessions[i]
        /\ storage'.sessions[Len(storage'.sessions)].id = call'.id
        /\ storage'.sessions[Len(storage'.sessions)].timestamp = clock'

\* C16: new() makes an empty store, add_session puts the session at the end
\* and leaves the sessions before it as they were, and after any calls of
\* add_session, remove_session and update_session_name the sessions of the
\* store are in the order they were added in.
C16_InsertionOrder ==
    /\ call.op = "new" => storage.sessions = << >>
    /\ [][Appended /\ InCreationOrder(storage'.sessions)]_vars

\* a session was added behind one that had been renamed, after a removal
C16_Witness ==
    /\ call.op = "add"
    /\ call.len = 1
    /\ clock = 3
    /\ Len(storage.sessions) = 2
    /\ storage.sessions[1].name # CreatedName

\* ------------------------------------------------------------------------
\* storage.rs, tab_data.rs: the derived Serialize and Deserialize
\* ------------------------------------------------------------------------

\* the values of the serialized form: strings, numbers, booleans, arrays of
\* values, and objects, which are lists of << key, value >> entries
JsonString(v) == [ k |-> "string", v |-> v ]
JsonNumber(v) == [ k |-> "number", v |-> v ]
JsonBool(v) == [ k |-> "boolean", v |-> v ]
JsonArray(items) == [ k |-> "array", v |-> items ]
JsonObject(entries) == [ k |-> "object", v |-> entries ]

\* Result
Ok(v) == << v >>
Err == << >>

\* Serialize of SavedTab: one entry per field, under the name of the field
serialize_tab(t) ==
    JsonObject(<< << "url", JsonString(t.url) >>,
                  << "title", JsonString(t.title) >>,
                  << "domain", JsonString(t.domain) >>,
                  << "pinned", JsonBool(t.pinned) >> >>)

\* Serialize of CollapsedSession with the name skipped
serialize_session_skip_name(s) ==
    JsonObject(<< << "id", JsonString(s.id) >>,
                  << "timestamp", JsonNumber(s.timestamp) >>,
                  << "tabs", JsonArray([ i \in 1..Len(s.tabs) |->
                                            serialize_tab(s.tabs[i]) ]) >> >>)

\* Serialize of CollapsedSession
serialize_session(s) ==
    JsonObject(<< << "id", JsonString(s.id) >>,
                  << "name", JsonString(s.name) >>,
                  << "timestamp", JsonNumber(s.timestamp) >>,
                  << "tabs", JsonArray([ i \in 1..Len(s.tabs) |->
                                            serialize_tab(s.tabs[i]) ]) >> >>)

\* Serialize of StorageData
serialize_storage(d) ==
    JsonObject(<< << "sessions",
                     JsonArray([ i \in 1..Len(d.sessions) |->
                                    serialize_session(d.sessions[i]) ]) >> >>)

\* the value of the field of an object: Some(value) when exactly one entry
\* has the key, None when the field is missing or given twice
field(obj, key) ==
    LET m == { i \in 1..Len(obj.v) : obj.v[i][1] = key }
    IN  IF Cardinality(m) = 1
        THEN Some(obj.v[CHOOSE i \in m : TRUE][2])
        ELSE None

\* whether the field is there and of the kind
has(obj, key, kind) ==
    /\ field(obj, key) # None
    /\ field(obj, key)[1].k = kind

\* Deserialize of SavedTab extracting the domain from the URL anew
deserialize_tab_recompute(v) ==
    IF v.k # "object" THEN Err
    ELSE IF ~(/\ has(v, "url", "string")
              /\ has(v, "title", "string")
              /\ has(v, "domain", "string")
              /\ has(v, "pinned", "boolean")) THEN Err
    ELSE LET d == extract_domain(field(v, "url")[1].v)
         IN  Ok(SavedTab(field(v, "url")[1].v, field(v, "title")[1].v,
                         IF d = None THEN << >> ELSE d[1],
                         field(v, "pinned")[1].v))

\* Deserialize of SavedTab
deserialize_tab(v) ==
    IF v.k # "object" THEN Err
    ELSE IF ~(/\ has(v, "url", "string")
              /\ has(v, "title", "string")
              /\ has(v, "domain", "string")
              /\ has(v, "pinned", "boolean")) THEN Err
    ELSE Ok(SavedTab(field(v, "url")[1].v, field(v, "title")[1].v,
                     field(v, "domain")[1].v, field(v, "pinned")[1].v))

\* Deserialize of Vec<SavedTab>
deserialize_tabs(v) ==
    IF v.k # "array" THEN Err
    ELSE LET rs == [ i \in 1..Len(v.v) |-> deserialize_tab(v.v[i]) ]
         IN  IF \E i \in 1..Len(rs) : rs[i] = Err THEN Err
             ELSE Ok([ i \in 1..Len(rs) |-> rs[i][1] ])

\* Deserialize of CollapsedSession
deserialize_session(v) ==
    IF v.k # "object" THEN Err
    ELSE IF ~(/\ has(v, "id", "string")
              /\ has(v, "name", "string")
              /\ has(v, "timestamp", "number")
              /\ field(v, "tabs") # None) THEN Err
    ELSE LET saved == deserialize_tabs(field(v, "tabs")[1])
         IN  IF saved = Err THEN Err
             ELSE Ok(CollapsedSession(field(v, "id")[1].v,
                                      field(v, "name")[1].v,
                                      field(v, "timestamp")[1].v, saved[1]))

\* Deserialize of Vec<CollapsedSession>
deserialize_sessions(v) ==
    IF v.k # "array" THEN Err
    ELSE LET rs == [ i \in 1..Len(v.v) |-> deserialize_session(v.v[i]) ]
         IN  IF \E i \in 1..Len(rs) : rs[i] = Err THEN Err
             ELSE Ok([ i \in 1..Len(rs) |-> rs[i][1] ])

\* Deserialize of StorageData
deserialize_storage(v) ==
    IF v.k # "object" THEN Err
    ELSE IF field(v, "sessions") = None THEN Err
    ELSE LET ss == deserialize_sessions(field(v, "sessions")[1])
         IN  IF ss = Err THEN Err ELSE Ok([ sessions |-> ss[1] ])

\* ------------------------------------------------------------------------
\* A store serialized and deserialized
\* ------------------------------------------------------------------------

\* the tab lists and the sessions of the stores that are serialized:
\* sessions without tabs, empty strings, pinned tabs, repeated ids
StoredTabLists ==
    LET t1 == SavedTab(<< "b", ".", "a" >>, << "t" >>, << "b", ".", "a" >>, FALSE)
        t2 == SavedTab(<< >>, << >>, << >>, TRUE)
    IN  { << >>, << t1 >>, << t1, t2 >> }
StoredSessions ==
    { CollapsedSession(id, name, timestamp, saved) :
        id \in SessionIds, name \in NewNames,
        timestamp \in { 0, 1698508200 }, saved \in StoredTabLists }

InitSerde ==
    /\ component = "serde"
    /\ \E n \in 0..MaxStored :
        \E ss \in [ 1..n -> StoredSessions ] : doc = [ sessions |-> ss ]
    /\ json = Unset
    /\ back = Unset
    /\ IdleCore /\ IdleStore /\ IdleView

\* serde_json::to_string(&storage) / serde_wasm_bindgen::to_value(&storage)
Serialize ==
    /\ json = Unset
    /\ json' = Set(serialize_storage(doc))
    /\ UNCHANGED << doc, back, coreVars, storeVars, viewVars >>

\* serde_json::from_str(&json) / serde_wasm_bindgen::from_value(value)
Deserialize ==
    /\ json # Unset
    /\ back = Unset
    /\ back' = Set(deserialize_storage(json[1]))
    /\ UNCHANGED << doc, json, coreVars, storeVars, viewVars >>

NextSerde == Serialize \/ Deserialize

SpecSerde == InitSerde /\ [][NextSerde]_vars

\* C17: deserializing what serializing a store gave succeeds and gives a
\* store equal to the original: the same sessions in the same order, each
\* with the same id, name, timestamp and tabs, each tab with the same url,
\* title, domain and pinned flag; for stores of any number of sessions,
\* sessions without tabs included.
C17_RoundTrip ==
    back # Unset =>
        /\ back[1] # Err
        /\ Len(back[1][1].sessions) = Len(doc.sessions)
        /\ \A i \in 1..Len(doc.sessions) :
            LET a == back[1][1].sessions[i]
                b == doc.sessions[i]
            IN  /\ a.id = b.id
                /\ a.name = b.name
                /\ a.timestamp = b.timestamp
                /\ Len(a.tabs) = Len(b.tabs)
                /\ \A j \in 1..Len(b.tabs) :
                    /\ a.tabs[j].url = b.tabs[j].url
                    /\ a.tabs[j].title = b.tabs[j].title
                    /\ a.tabs[j].domain = b.tabs[j].domain
                    /\ a.tabs[j].pinned = b.tabs[j].pinned

\* a store of a session without tabs and a session of two tabs came back
C17_Witness ==
    /\ back # Unset
    /\ back[1] # Err
    /\ Len(doc.sessions) = 2
    /\ Len(doc.sessions[1].tabs) = 0
    /\ Len(doc.sessions[2].tabs) = 2
    /\ Len(back[1][1].sessions[2].tabs) = 2

\* ------------------------------------------------------------------------
\* ui/collapsed.rs: the handlers of the viewer that change the store
\* ------------------------------------------------------------------------

\* session.tabs.retain(|t| t.url != tab_url)
retain_other_urls(saved, tab_url) ==
    LET other(t) == t.url # tab_url
    IN  SelectSeq(saved, other)

\* on_delete_tab leaving a session without tabs in the store
on_delete_tab_keep_empty(current, session_id, tab_url) ==
    LET i == position(current.sessions, session_id)
    IN  IF i = 0 THEN None
        ELSE Some([ current EXCEPT !.sessions[i].tabs =
                        retain_other_urls(@, tab_url) ])

\* on_delete_tab on the current store: the new store it sets and saves, None
\* when no session has the id and it does nothing
on_delete_tab(current, session_id, tab_url) ==
    LET i == position(current.sessions, session_id)
    IN  IF i = 0 THEN None
        ELSE LET new_storage ==
                    [ current EXCEPT !.sessions[i].tabs =
                        retain_other_urls(@, tab_url) ]
             IN  IF is_empty(new_storage.sessions[i].tabs)
                 THEN Some(remove_session(new_storage, session_id)[1])
                 ELSE Some(new_storage)

\* on_delete_session on the current store: the new store it sets and saves
on_delete_session(current, session_id) ==
    remove_session(current, session_id)[1]

\* load_storage: what the viewer gets from what chrome.storage.local holds
load_storage(held) ==
    IF held = None THEN Ok(new) ELSE deserialize_storage(held[1])

\* ------------------------------------------------------------------------
\* The viewer: the store loaded, sessions and tabs deleted, the store saved
\* ------------------------------------------------------------------------

\* the tab lists of the sessions chrome.storage.local holds at the start: as
\* collapsing writes them, no URL twice, possibly no tab at all
ViewUrls == { << "b", ".", "a" >>, << "w", ".", "b", ".", "a" >> }
ViewTabLists ==
    { saved \in UNION { [ 1..n -> { SavedTab(u, << "t" >>, << "b", ".", "a" >>, FALSE) :
                                        u \in ViewUrls } ] : n \in 0..2 } :
        \A i, j \in 1..Len(saved) : saved[i].url = saved[j].url => i = j }

\* the record of a handler run: len is how many sessions the store held before
Handled(op, id, u) ==
    [ op |-> op, id |-> id, url |-> u, len |-> Len(storage.sessions) ]

InitViewer ==
    /\ component = "viewer"
    /\ storage = new
    /\ clock = 0
    /\ fresh_adds = TRUE
    /\ call = [ op |-> "mount", id |-> "", url |-> << >>, len |-> 0 ]
    /\ \/ persisted = None
       \/ \E n \in 0..MaxStored :
            \E ids \in [ 1..n -> SessionIds ], saved \in [ 1..n -> ViewTabLists ] :
                /\ \A i, j \in 1..n : ids[i] = ids[j] => i = j
                /\ persisted = Some(serialize_storage(
                        [ sessions |-> [ i \in 1..n |->
                            CollapsedSession(ids[i], CreatedName, i, saved[i]) ] ]))
    /\ writes = << >>
    /\ state = "Loading"
    /\ asked = {}
    /\ IdleCore /\ IdleSerde

\* the effect on mount: load_storage, then the store and the state set
LoadStorage ==
    /\ state = "Loading"
    /\ \E got \in BOOLEAN :
        LET data == IF got THEN load_storage(persisted) ELSE Err
        IN  IF data = Err
            THEN state' = "Error" /\ UNCHANGED storage
            ELSE storage' = data[1] /\ state' = "Idle"
    /\ call' = Handled("load", "", << >>)
    /\ UNCHANGED << clock, fresh_adds, persisted, writes, asked, coreVars, serdeVars >>

\* the on_delete_tab handler, called for a tab of a session
OnDeleteTab ==
    /\ Len(writes) < MaxWrites
    /\ \E id \in SessionIds, u \in ViewUrls :
        LET new_storage == on_delete_tab(storage, id, u)
        IN  /\ IF new_storage = None
               THEN UNCHANGED << storage, writes, asked >>
               ELSE /\ storage' = new_storage[1]
                    /\ writes' = Append(writes, new_storage[1])
                    /\ asked' = IF HasId(new_storage[1].sessions, id)
                                THEN asked ELSE asked \cup { id }
            /\ call' = Handled("delete_tab", id, u)
    /\ UNCHANGED << clock, fresh_adds, persisted, state, coreVars, serdeVars >>

\* the on_delete_session handler, called for a session that is shown
OnDeleteSession ==
    /\ Len(writes) < MaxWrites
    /\ \E id \in SessionIds :
        /\ HasId(storage.sessions, id)
        /\ storage' = on_delete_session(storage, id)
        /\ writes' = Append(writes, on_delete_session(storage, id))
        /\ asked' = asked \cup { id }
        /\ call' = Handled("delete_session", id, << >>)
    /\ UNCHANGED << clock, fresh_adds, persisted, state, coreVars, serdeVars >>

\* save_storage for the oldest store not yet written: setStorage takes it or
\* fails, and a failure is shown as the state
SaveStorage ==
    /\ writes # << >>
    /\ writes' = Tail(writes)
    /\ \E ok \in BOOLEAN :
        IF ok
        THEN persisted' = Some(serialize_storage(Head(writes))) /\ UNCHANGED state
        ELSE state' = "Error" /\ UNCHANGED persisted
    /\ UNCHANGED << storage, clock, fresh_adds, call, asked, coreVars, serdeVars >>

NextViewer ==
    \/ LoadStorage
    \/ OnDeleteTab
    \/ OnDeleteSession
    \/ SaveStorage

SpecViewer == InitViewer /\ [][NextViewer]_vars

\* the positions of the tabs of a session that have the URL
WithUrl(saved, u) == { k \in 1..Len(saved) : saved[k].url = u }

\* C18: after the tab with a URL is deleted from the session with an id, the
\* store holds no session with that id and no tabs: a session left without
\* tabs by the deletion is gone from the store, a session with tabs left is
\* kept in its place with the tabs left in their order, and the other
\* sessions are as they were.
DeleteTabEffect ==
    call'.op = "delete_tab" =>
        LET before == storage.sessions
            after == storage'.sessions
            emptied == { i \in Matching(before, call'.id) :
                            WithUrl(before[i].tabs, call'.url)
                                = 1..Len(before[i].tabs) }
            kept == (1..Len(before)) \ emptied
        IN  /\ \A j \in Matching(after, call'.id) : Len(after[j].tabs) > 0
            /\ Len(after) = Cardinality(kept)
            /\ \A i \in kept :
                LET a == after[Cardinality({ j \in kept : j <= i })]
                IN  IF before[i].id = call'.id
                    THEN /\ a.id = before[i].id
                         /\ a.name = before[i].name
                         /\ a.timestamp = before[i].timestamp
                         /\ TakenOut(before[i].tabs,
                                     WithUrl(before[i].tabs, call'.url),
                                     a.tabs)
                    ELSE a = before[i]
C18_NoEmptySessionAfterDelete == [][DeleteTabEffect]_vars

\* deleting the only tab of a session took the session out of the store and
\* left the other session with its two tabs
C18_Witness ==
    /\ call.op = "delete_tab"
    /\ call.len = 2
    /\ Len(storage.sessions) = 1
    /\ storage.sessions[1].id # call.id
    /\ Len(storage.sessions[1].tabs) = 2

\* ------------------------------------------------------------------------
\* The core as a whole: a run exercises the extractor, the reconciler, the
\* aggregator or the store
\* ------------------------------------------------------------------------

InitCore == InitDomain \/ InitTabs \/ InitCounts \/ InitStore

NextCore ==
    \/ component = "domain" /\ NextDomain
    \/ component = "reconciler" /\ NextTabs
    \/ component = "aggregator" /\ NextCounts
    \/ component = "store" /\ NextStore

SpecCore == InitCore /\ [][NextCore]_vars

\* the label slice of extract_domain, where the call on u gets to it, starts
\* within the label list
SliceInBounds(u) ==
    LET h == extract_hostname(u)
    IN  (/\ ~is_empty(u)
         /\ h # None
         /\ h[1] # localhost
         /\ ~is_ip_address(h[1])
         /\ Len(split(h[1], ".")) >= 2)
        => LET parts == split(h[1], ".")
               start == Len(parts) - num_parts_of(parts)
           IN  0 <= start /\ start <= Len(parts)

\* C19: every function of the core returns for every input, the empty
\* string, empty lists, malformed URLs and an n above the number of entries
\* included: extract_domain returns a domain or None and its label slice is
\* within the label list, no call inside sort_tabs_by_domain, make_tabs_unique,
\* count_domains or get_top_domains panics and each returns a list or map no
\* larger than its input allows, and the store operations return a bool or
\* an Option.
C19_Total ==
    /\ dpc = "done" => (domain # Some(Panic) /\ SliceInBounds(url))
    /\ sorted # Unset =>
        /\ Len(sorted[1]) <= Len(tabs)
        /\ \A i \in 1..Len(tabs) : extract_domain(tabs[i].url) # Some(Panic)
    /\ unique # Unset => Len(unique[1][1]) + Len(unique[1][2]) = Len(tabs)
    /\ counts # Unset =>
        /\ Panic \notin DOMAIN counts[1]
        /\ Cardinality(DOMAIN counts[1]) <= Len(urls)
    /\ top # Unset =>
        /\ Len(top[1]) <= top_n
        /\ Len(top[1]) <= Cardinality(DOMAIN counts[1])
        /\ \A i \in 1..Len(top[1]) : top[1][i][1] # Panic
    /\ component = "store" => (call.ret \in BOOLEAN /\ Len(call.got) <= 1)

\* a call on a host of the two labels co.jp, which has no third label for
\* the 3-label rule to keep, returned the host
C19_Witness ==
    /\ dpc = "done"
    /\ url = << "c", "o", ".", "j", "p" >>
    /\ domain = Some(url)

\* ------------------------------------------------------------------------
\* C20
\* ------------------------------------------------------------------------

\* exactly three labels, the last two being co and jp
UnderCoJp(h) ==
    /\ NumLabels(h) = 3
    /\ LabelFromEnd(h, 1) = << "j", "p" >>
    /\ LabelFromEnd(h, 2) = co

CoJpTwoKept(h, d) ==
    (h # None /\ UnderCoJp(h[1])) => d = Some(LastLabels(h[1], 2))

\* C20, as stated: for a hostname of three labels under .co.jp,
\* extract_domain keeps the last two labels only; the 3-label rule is not
\* applied.
C20_Original == Called => CoJpTwoKept(HostnameOfUrl, domain)

CoJpAllKept(h, d) ==
    (h # None /\ UnderCoJp(h[1])) => (d = h /\ NumLabels(d[1]) = 3)

\* C20, amended: for a hostname of three labels under .co.jp, extract_domain
\* applies the 3-label rule and returns all three labels, the hostname as it
\* is.
C20_CoJpThreeLabels == Called => CoJpAllKept(HostnameOfUrl, domain)

\* a call on a.co.jp, with or without scheme, port and path, returned a.co.jp
C20_Witness ==
    /\ Called
    /\ HostnameOfUrl = Some(<< "a", ".", "c", "o", ".", "j", "p" >>)
    /\ domain = Some(<< "a", ".", "c", "o", ".", "j", "p" >>)
    /\ Len(url) > 7

\* ------------------------------------------------------------------------
\* C21
\* ------------------------------------------------------------------------

\* the positions at which the token occurs in s
Occurrences(s, token) ==
    { i \in 1..(Len(s) - Len(token) + 1) :
        SubSeq(s, i, i + Len(token) - 1) = token }

\* s without the characters at the positions in gone
Without(s, gone) ==
    LET kept == (1..Len(s)) \ gone
    IN  [ k \in 1..Cardinality(kept) |->
            s[CHOOSE i \in kept : Cardinality({ j \in kept : j <= i }) = k] ]

\* the positions the occurrences of the token starting at the positions in
\* starts cover
Covered(starts, token) ==
    UNION { i..(i + Len(token) - 1) : i \in starts }

\* s without the first occurrence of the token
WithoutFirst(s, token) ==
    LET occ == Occurrences(s, token)
    IN  IF occ = {} THEN s
        ELSE Without(s, Covered({ CHOOSE i \in occ : \A j \in occ : i <= j },
                                token))

\* s without every occurrence of the token; no scheme token overlaps itself
WithoutEvery(s, token) == Without(s, Covered(Occurrences(s, token), token))

\* the hostname of a URL from what is left of it once the scheme tokens are
\* out: cut at the first / and at the first :, in lower case, None when empty
HostOf(cleaned) ==
    LET host == UpTo(UpTo(cleaned, "/"), ":")
    IN  IF host = << >> THEN None ELSE Some(to_lowercase(host))

\* C21, as stated: the hostname is taken from the URL with only the first
\* occurrence of https://, of http:// and of ftp:// removed, in that case
\* only; a second occurrence of a token stays in place.
C21_Original ==
    Called =>
        HostnameOfUrl
            = HostOf(WithoutFirst(WithoutFirst(WithoutFirst(Trimmed(url),
                        https), http), ftp))

\* C21, amended: the hostname is taken from the URL with every occurrence
\* of https://, then of http://, then of ftp:// removed, in that case only;
\* a token that comes about by the removal of another stays in place.
C21_EveryOccurrence ==
    Called =>
        HostnameOfUrl
            = HostOf(WithoutEvery(WithoutEvery(WithoutEvery(Trimmed(url),
                        https), http), ftp))

\* a call on https://https://b.a returned b.a
C21_Witness ==
    /\ Called
    /\ url = https \o https \o << "b", ".", "a" >>
    /\ domain = Some(<< "b", ".", "a" >>)

\* ------------------------------------------------------------------------
\* C26
\* ------------------------------------------------------------------------

\* C26: after remove_session(id), whatever the store held, several
\* sessions with the id included, no session of the store carries the id; a
\* get_session(id) that follows returns None and a remove_session(id) that
\* follows returns false.
GoneAfterRemove ==
    /\ call'.op = "remove" => Matching(storage'.sessions, call'.id) = {}
    /\ (call.op = "remove" /\ call'.op = "get" /\ call'.id = call.id)
        => call'.got = None
    /\ (call.op = "remove" /\ call'.op = "remove" /\ call'.id = call.id)
        => ~call'.ret
C26_GoneAfterRemove == [][GoneAfterRemove]_vars

\* two sessions were added with the same id, the store is empty again, and
\* a lookup of the id found nothing
C26_Witness ==
    /\ call.op = "get"
    /\ call.got = None
    /\ clock = 2
    /\ ~fresh_adds
    /\ storage.sessions = << >>

\* ------------------------------------------------------------------------
\* C27
\* ------------------------------------------------------------------------

\* C27: extract_domain is idempotent on its own output: when extraction
\* succeeds on a URL with domain d, extract_domain(d) succeeds and returns
\* d.
C27_Idempotent == dpc = "again" => again = domain

\* ------------------------------------------------------------------------
\* ui/popup.rs
\* ------------------------------------------------------------------------

\* is_busy letting the buttons through in the Error state
is_busy_unless_error(st) == st \notin { "Idle", "Error" }

\* let is_busy = !matches!(*state, AppState::Idle), the disabled property of
\* the five action buttons
is_busy(st) == st # "Idle"

\* .iter().map(|t| t.id).collect()
tab_ids(ts) == [ k \in 1..Len(ts) |-> ts[k].id ]

\* tabs.iter().map(|t| t.url.clone()).collect()
tab_urls(ts) == [ k \in 1..Len(ts) |-> ts[k].url ]

\* the filter_map of on_collapse: a SavedTab for every tab extraction
\* succeeds on, with the domain extracted
RECURSIVE saved_tabs(_)
saved_tabs(unique_tabs) ==
    IF unique_tabs = << >> THEN << >>
    ELSE LET tab == Head(unique_tabs)
             d == extract_domain(tab.url)
         IN  (IF d = None THEN << >>
              ELSE << SavedTab(tab.url, tab.title, d[1], tab.pinned) >>)
                 \o saved_tabs(Tail(unique_tabs))

\* Uuid::new_v4().to_string(): the n-th identifier drawn is unlike the ones
\* drawn before
SessionIdSeq == << "s1", "s2", "s3", "s4", "s5" >>
new_v4(n) == SessionIdSeq[n]

\* on_collapse making the tabs unique as the browser lists them, unsorted
on_collapse_tabs_unsorted(open, session_id, now) ==
    LET sorted_tabs == sort_tabs_by_domain(open)
        unique_tabs == make_tabs_unique(open)[1]
    IN  [ sorted |-> sorted_tabs,
          unique_tabs |-> unique_tabs,
          session |-> CollapsedSession(session_id, CreatedName, now,
                                       saved_tabs(unique_tabs)) ]

\* on_collapse from the tab list to the session: the tabs sorted, made
\* unique, and the session built of them
on_collapse_tabs(open, session_id, now) ==
    LET sorted_tabs == sort_tabs_by_domain(open)
        unique_tabs == make_tabs_unique(sorted_tabs)[1]
    IN  [ sorted |-> sorted_tabs,
          unique_tabs |-> unique_tabs,
          session |-> CollapsedSession(session_id, CreatedName, now,
                                       saved_tabs(unique_tabs)) ]

\* save_session between getStorage and setStorage: the store parsed, new
\* when nothing is held, and the session added
save_session_storage(held, session) ==
    LET loaded == IF held = None THEN Ok(new) ELSE deserialize_storage(held[1])
    IN  IF loaded = Err THEN Err ELSE Ok(add_session(loaded[1], session))

\* on_collapse closing the tabs whatever save_session returned
on_collapse_saved_regardless(saved, unique_tabs) == Some(tab_ids(unique_tabs))

\* on_collapse once save_session has returned: the identifiers closeTabs is
\* called with, None when the session was not saved and no call is made
on_collapse_saved(saved, unique_tabs) ==
    IF saved THEN Some(tab_ids(unique_tabs)) ELSE None

\* on_analyze once the tabs are there: the statistics shown
domain_stats_of(open, order) ==
    LET top_10 == get_top_domains(count_domains(tab_urls(open)), 10, order)
    IN  [ k \in 1..Len(top_10) |->
            [ domain |-> top_10[k][1], count |-> top_10[k][2] ] ]

\* ------------------------------------------------------------------------
\* The popup: the five action buttons and the operations they spawn
\* ------------------------------------------------------------------------

\* the URLs of the open tabs: one extraction fails on, two of one domain
OpenUrls == { << >>, << "b", ".", "a" >>, << "w", ".", "b", ".", "a" >> }

\* the identifiers of n open tabs: ascending or descending along the list
OpenIds(n) == { [ i \in 1..n |-> i ], [ i \in 1..n |-> n + 1 - i ] }

\* what chrome.storage.local holds that is no StorageData
Corrupt == JsonObject(<< >>)

popupFrame ==
    << domVars, pairVars, tabVars, cntVars, storage, fresh_adds, call,
       serdeVars, writes, state, asked, jobs, component >>

InitPopup ==
    /\ component = "popup"
    /\ \E n \in 0..MaxOpen :
        \E ids \in OpenIds(n), us \in [ 1..n -> OpenUrls ] :
            tabs = TabList(ids, us)
    /\ persisted \in { None, Some(Corrupt) }
    /\ app_state = "Idle"
    /\ task = NoTask
    /\ host_call = NoHostCall
    /\ panel = [ domain_stats |-> << >>, is_domains_expanded |-> FALSE ]
    /\ jobs = << >>
    /\ writes = << >>
    /\ state = "None"
    /\ asked = {}
    /\ sorted = Unset
    /\ unique = Unset
    /\ IdleDomain /\ IdlePair /\ IdleCounts /\ IdleStore /\ IdleSerde

Spawned(op) == [ NoTask EXCEPT !.op = op, !.pc = "get_tabs" ]

\* the on_analyze handler: the panel folded when it shows statistics, the
\* analysis spawned otherwise
OnAnalyze ==
    /\ ~is_busy(app_state)
    /\ IF panel.is_domains_expanded /\ ~is_empty(panel.domain_stats)
       THEN /\ panel' = [ panel EXCEPT !.is_domains_expanded = FALSE ]
            /\ UNCHANGED << app_state, task >>
       ELSE /\ app_state' = "Loading"
            /\ task' = Spawned("analyze")
            /\ UNCHANGED panel
    /\ UNCHANGED << host_call, persisted, clock, popupFrame >>

\* the on_sort handler
OnSort ==
    /\ ~is_busy(app_state)
    /\ app_state' = "Loading"
    /\ task' = Spawned("sort")
    /\ UNCHANGED << host_call, panel, persisted, clock, popupFrame >>

\* the on_unique handler
OnUnique ==
    /\ ~is_busy(app_state)
    /\ app_state' = "Loading"
    /\ task' = Spawned("unique")
    /\ UNCHANGED << host_call, panel, persisted, clock, popupFrame >>

\* the on_collapse handler
OnCollapse ==
    /\ ~is_busy(app_state)
    /\ clock < MaxCollapses
    /\ app_state' = "Loading"
    /\ task' = Spawned("collapse")
    /\ UNCHANGED << host_call, panel, persisted, clock, popupFrame >>

\* the on_view_collapsed handler
OnViewCollapsed ==
    /\ ~is_busy(app_state)
    /\ host_call' = [ fn |-> "openCollapsedViewer", ids |-> << >> ]
    /\ UNCHANGED << app_state, task, panel, persisted, clock, popupFrame >>

\* get_current_tabs fails in a spawned operation
GetTabsFailed ==
    /\ task.pc = "get_tabs"
    /\ app_state' = "Error"
    /\ task' = NoTask
    /\ UNCHANGED << host_call, panel, persisted, clock, popupFrame >>

\* on_analyze once get_current_tabs has returned the tabs
AnalyzeTabs ==
    /\ task.op = "analyze" /\ task.pc = "get_tabs"
    /\ \E order \in Orders(count_domains(tab_urls(tabs))) :
        panel' = [ domain_stats |-> domain_stats_of(tabs, order),
                   is_domains_expanded |-> TRUE ]
    /\ app_state' = "Idle"
    /\ task' = NoTask
    /\ UNCHANGED << host_call, persisted, clock, popupFrame >>

\* on_sort once get_current_tabs has returned the tabs: sortTabsByDomain
\* called with the identifiers in sorted order
SortTabs ==
    /\ task.op = "sort" /\ task.pc = "get_tabs"
    /\ host_call' = [ fn |-> "sortTabsByDomain",
                      ids |-> tab_ids(sort_tabs_by_domain(tabs)) ]
    /\ task' = [ task EXCEPT !.pc = "host" ]
    /\ UNCHANGED << app_state, panel, persisted, clock, popupFrame >>

\* on_unique once get_current_tabs has returned the tabs: removeTabs called
\* with the identifiers of the duplicates, if there are any
UniqueTabs ==
    /\ task.op = "unique" /\ task.pc = "get_tabs"
    /\ LET remove_ids == make_tabs_unique(tabs)[2]
       IN  IF is_empty(remove_ids)
           THEN /\ app_state' = "Idle"
                /\ task' = NoTask
                /\ UNCHANGED host_call
           ELSE /\ host_call' = [ fn |-> "removeTabs", ids |-> remove_ids ]
                /\ task' = [ task EXCEPT !.pc = "host" ]
                /\ UNCHANGED app_state
    /\ UNCHANGED << panel, persisted, clock, popupFrame >>

\* on_collapse once get_current_tabs has returned the tabs: the session
\* built, save_session entered
CollapseTabs ==
    /\ task.op = "collapse" /\ task.pc = "get_tabs"
    /\ clock' = clock + 1
    /\ \E built \in { on_collapse_tabs(tabs, new_v4(clock + 1), clock + 1) } :
           task' = [ task EXCEPT !.pc = "get_storage",
                                 !.sorted = built.sorted,
                                 !.unique_tabs = built.unique_tabs,
                                 !.session = Some(built.session) ]
    /\ UNCHANGED << app_state, host_call, panel, persisted, popupFrame >>

\* save_session up to setStorage: getStorage fails, or what it returns does
\* not parse, or the session is added to the store read
GetStorage ==
    /\ task.pc = "get_storage"
    /\ \E ok \in BOOLEAN :
        LET added == IF ok THEN save_session_storage(persisted, task.session[1])
                     ELSE Err
        IN  IF added = Err
            THEN /\ app_state' = "Error"
                 /\ task' = NoTask
            ELSE /\ task' = [ task EXCEPT !.pc = "set_storage",
                                          !.storage = Some(added[1]) ]
                 /\ UNCHANGED app_state
    /\ UNCHANGED << host_call, panel, persisted, clock, popupFrame >>

\* setStorage takes the store or fails; on_collapse goes on to closeTabs or
\* shows the failure
SetStorage ==
    /\ task.pc = "set_storage"
    /\ \E ok \in BOOLEAN :
        LET close == on_collapse_saved(ok, task.unique_tabs)
        IN  /\ IF ok
               THEN persisted' = Some(serialize_storage(task.storage[1]))
               ELSE UNCHANGED persisted
            /\ IF close = None
               THEN /\ app_state' = "Error"
                    /\ task' = NoTask
                    /\ UNCHANGED host_call
               ELSE /\ host_call' = [ fn |-> "closeTabs", ids |-> close[1] ]
                    /\ task' = [ task EXCEPT !.pc = "host" ]
                    /\ UNCHANGED app_state
    /\ UNCHANGED << panel, clock, popupFrame >>

\* the progress callback of a call on the browser's tabs
Progress ==
    /\ task.pc = "host"
    /\ app_state' = "Processing"
    /\ UNCHANGED << task, host_call, panel, persisted, clock, popupFrame >>

\* the call on the browser's tabs returns
HostDone ==
    /\ task.pc = "host"
    /\ \E ok \in BOOLEAN :
        app_state' = IF ok THEN "Idle" ELSE "Error"
    /\ task' = NoTask
    /\ UNCHANGED << host_call, panel, persisted, clock, popupFrame >>

NextPopup ==
    \/ OnAnalyze
    \/ OnSort
    \/ OnUnique
    \/ OnCollapse
    \/ OnViewCollapsed
    \/ GetTabsFailed
    \/ AnalyzeTabs
    \/ SortTabs
    \/ UniqueTabs
    \/ CollapseTabs
    \/ GetStorage
    \/ SetStorage
    \/ Progress
    \/ HostDone

SpecPopup == InitPopup /\ [][NextPopup]_vars

\* ------------------------------------------------------------------------
\* What chrome.storage.local holds, read entry by entry
\* ------------------------------------------------------------------------

\* the value under the key in an object
EntryOf(obj, key) ==
    obj.v[CHOOSE i \in DOMAIN obj.v : obj.v[i][1] = key][2]

HasEntry(obj, key) == \E i \in DOMAIN obj.v : obj.v[i][1] = key

\* the sessions held, as they are written
HeldSessions(held) ==
    IF held = None THEN << >>
    ELSE IF ~HasEntry(held[1], "sessions") THEN << >>
    ELSE EntryOf(held[1], "sessions").v

HeldIds(held) ==
    { EntryOf(HeldSessions(held)[i], "id").v : i \in DOMAIN HeldSessions(held) }

\* the URLs of the tabs held for the session with the id, in their order
HeldUrls(held, id) ==
    LET s == CHOOSE x \in { HeldSessions(held)[i] : i \in DOMAIN HeldSessions(held) } :
                EntryOf(x, "id").v = id
        saved == EntryOf(s, "tabs").v
    IN  [ k \in DOMAIN saved |-> EntryOf(saved[k], "url").v ]

\* ------------------------------------------------------------------------
\* C23
\* ------------------------------------------------------------------------

\* a step of a collapse that calls closeTabs
ClosesTabs == task.op = "collapse" /\ task.pc # "host" /\ task'.pc = "host"

\* C23: in a collapse, closeTabs is called only once the new session is in
\* chrome.storage.local; a step of save_session either goes on to the write,
\* or leaves the session written, or, when reading, parsing or writing
\* failed, ends the collapse in the Error state with no call on the tabs.
CloseOnlyAfterSave ==
    /\ ClosesTabs =>
        /\ host_call'.fn = "closeTabs"
        /\ task.session[1].id \in HeldIds(persisted')
    /\ (task.op = "collapse" /\ task.pc \in { "get_storage", "set_storage" }
            /\ task' # task) =>
        \/ task'.pc = "set_storage" /\ host_call' = host_call
        \/ task.session[1].id \in HeldIds(persisted')
        \/ /\ app_state' = "Error"
           /\ task' = NoTask
           /\ host_call' = host_call
C23_CloseOnlyAfterSave == [][CloseOnlyAfterSave]_vars

\* a collapse of open tabs found a store that does not parse: the popup
\* shows the error and no call on the tabs was made
C23_Witness ==
    /\ app_state = "Error"
    /\ clock = 1
    /\ persisted = Some(Corrupt)
    /\ tabs # << >>
    /\ host_call = NoHostCall

\* ------------------------------------------------------------------------
\* C24
\* ------------------------------------------------------------------------

\* the open tab with the identifier
OpenTab(id) == tabs[CHOOSE p \in DOMAIN tabs : tabs[p].id = id]

\* C24: the identifiers closeTabs is called with in a collapse match the
\* SavedTabs of the session written one to one and in order: the k-th
\* identifier is that of an open tab with the URL of the k-th SavedTab, no
\* identifier and no URL comes twice, and no tab extraction fails on is
\* closed or archived.
ClosedAreArchived ==
    ClosesTabs =>
        LET ids == host_call'.ids
            archived == HeldUrls(persisted', task.session[1].id)
        IN  /\ Len(ids) = Len(archived)
            /\ \A k \in DOMAIN ids :
                /\ \E p \in DOMAIN tabs : tabs[p].id = ids[k]
                /\ OpenTab(ids[k]).url = archived[k]
            /\ \A j, k \in DOMAIN ids :
                (ids[j] = ids[k] \/ archived[j] = archived[k]) => j = k
            /\ \A p \in DOMAIN tabs :
                extract_domain(tabs[p].url) = None =>
                    /\ \A k \in DOMAIN ids : ids[k] # tabs[p].id
                    /\ \A k \in DOMAIN ids : archived[k] # tabs[p].url
C24_ClosedAreArchived == [][ClosedAreArchived]_vars

\* of a tab extraction fails on and two tabs with one URL, the first of the
\* two alone is closed
C24_Witness ==
    /\ task.op = "collapse" /\ task.pc = "host"
    /\ Len(tabs) = 3
    /\ tabs[1].url = << >>
    /\ tabs[2].url = << "b", ".", "a" >>
    /\ tabs[3].url = << "b", ".", "a" >>
    /\ host_call = [ fn |-> "closeTabs", ids |-> << tabs[2].id >> ]

\* ------------------------------------------------------------------------
\* C28
\* ------------------------------------------------------------------------

\* where the open tab with the identifier is in the browser's list
PlaceOf(id) == CHOOSE p \in DOMAIN tabs : tabs[p].id = id

\* C28: in a collapse, tabs with equal (domain, url) keys are in the sorted
\* list in the order the browser listed them, and the tab kept for a URL is
\* the earliest open tab with that URL.
C28_StableKeepsEarliest ==
    (task.op = "collapse" /\ task.pc # "get_tabs") =>
        /\ \A i, j \in DOMAIN task.sorted :
            (/\ i < j
             /\ task.sorted[i].url = task.sorted[j].url
             /\ extract_domain(task.sorted[i].url)
                    = extract_domain(task.sorted[j].url))
                => PlaceOf(task.sorted[i].id) < PlaceOf(task.sorted[j].id)
        /\ \A k \in DOMAIN task.unique_tabs :
            \A p \in DOMAIN tabs :
                tabs[p].url = task.unique_tabs[k].url
                    => PlaceOf(task.unique_tabs[k].id) <= p

\* the first and the third open tab have one URL, and the first is kept
C28_Witness ==
    /\ task.op = "collapse" /\ task.pc = "set_storage"
    /\ Len(tabs) = 3
    /\ tabs[1].url = << "b", ".", "a" >>
    /\ tabs[2].url = << "w", ".", "b", ".", "a" >>
    /\ tabs[3].url = << "b", ".", "a" >>
    /\ tabs[1].id = 3
    /\ tab_ids(task.unique_tabs) = << 3, 2 >>

\* ------------------------------------------------------------------------
\* C29
\* ------------------------------------------------------------------------

\* C29: a button of the popup does something only while the AppState is
\* Idle, and once the AppState is Error it stays Error: nothing is started,
\* nothing is called and nothing shown changes.
IdleStartsErrorStays ==
    /\ (task.op = "none" /\ << task, host_call, panel >>' # << task, host_call, panel >>)
        => app_state = "Idle"
    /\ app_state = "Error" => UNCHANGED popVars
on_save_edit(current, session_id, new_name) ==
    LET updated == update_session_name(current, session_id, new_name)
    IN  IF updated[2] THEN Some(updated[1]) ELSE None

\* a restore_session_tabs the viewer has spawned: by which handler, for
\* which tabs
Restore(by, saved) == [ by |-> by, tabs |-> saved ]

\* the sequence without its k-th element
Dropped(s, k) == SubSeq(s, 1, k - 1) \o SubSeq(s, k + 1, Len(s))

\* the on_save_edit handler, a session being edited
OnSaveEdit ==
    /\ Len(writes) < MaxWrites
    /\ \E id \in SessionIds, new_name \in NewNames :
        LET new_storage == on_save_edit(storage, id, new_name)
        IN  /\ IF new_storage = None
               THEN UNCHANGED << storage, writes >>
               ELSE /\ storage' = new_storage[1]
                    /\ writes' = Append(writes, new_storage[1])
            /\ call' = Handled("save_edit", id, << >>)
    /\ UNCHANGED << clock, fresh_adds, persisted, state, asked, coreVars, serdeVars >>

\* the on_export handler: the store serialized and handed to exportToFile
OnExport ==
    /\ call' = Handled("export", "", << >>)
    /\ UNCHANGED << storage, clock, fresh_adds, viewVars, coreVars, serdeVars >>

viewerFrame ==
    << domVars, pairVars, tabVars, cntVars, popVars, component, clock,
       fresh_adds, serdeVars, persisted, writes, asked >>

\* the on_restore_session handler, called for a session that is shown
OnRestoreSession ==
    /\ Len(jobs) < MaxRestores
    /\ \E i \in DOMAIN storage.sessions :
        /\ state' = "Restoring"
        /\ jobs' = Append(jobs, Restore("session", storage.sessions[i].tabs))
        /\ call' = Handled("restore_session", storage.sessions[i].id, << >>)
    /\ UNCHANGED << storage, viewerFrame >>

\* the on_restore_tab handler, called for a tab that is shown
OnRestoreTab ==
    /\ Len(jobs) < MaxRestores
    /\ \E i \in DOMAIN storage.sessions :
        \E j \in DOMAIN storage.sessions[i].tabs :
            /\ jobs' = Append(jobs, Restore("tab", << storage.sessions[i].tabs[j] >>))
            /\ call' = Handled("restore_tab", storage.sessions[i].id,
                               storage.sessions[i].tabs[j].url)
    /\ UNCHANGED << storage, state, viewerFrame >>

\* the progress callback of a restoreTabs call in flight
RestoreProgress ==
    /\ \E k \in DOMAIN jobs :
        call' = Handled("progress", jobs[k].by, << >>)
    /\ state' = "Restoring"
    /\ UNCHANGED << storage, jobs, viewerFrame >>

\* a restoreTabs call returns: the handler that spawned it sets the state,
\* on_restore_tab on failure only
RestoreDone ==
    \E k \in DOMAIN jobs, ok \in BOOLEAN :
        /\ jobs' = Dropped(jobs, k)
        /\ state' = IF ~ok THEN "Error"
                    ELSE IF jobs[k].by = "session" THEN "Idle"
                    ELSE state
        /\ call' = Handled(IF ok THEN "restored" ELSE "restore_failed",
                           jobs[k].by, << >>)
        /\ UNCHANGED << storage, viewerFrame >>

\* ------------------------------------------------------------------------
\* The viewer with a store loaded: sessions and tabs restored
\* ------------------------------------------------------------------------

InitRestore ==
    /\ component = "restore"
    /\ clock = 0
    /\ fresh_adds = TRUE
    /\ call = [ op |-> "load", id |-> "", url |-> << >>, len |-> 0 ]
    /\ \E n \in 0..MaxStored :
        \E ids \in [ 1..n -> SessionIds ], saved \in [ 1..n -> ViewTabLists ] :
            /\ \A i, j \in 1..n : ids[i] = ids[j] => i = j
            /\ storage = [ sessions |-> [ i \in 1..n |->
                            CollapsedSession(ids[i], CreatedName, i, saved[i]) ] ]
            /\ persisted = Some(serialize_storage(storage))
    /\ writes = << >>
    /\ state = "Idle"
    /\ asked = {}
    /\ IdleCore /\ IdleSerde

NextRestore ==
    \/ OnRestoreSession
    \/ OnRestoreTab
    \/ RestoreProgress
    \/ RestoreDone

SpecRestore == InitRestore /\ [][NextRestore]_vars

\* every restoreTabs call returns in the end
FairRestore == SpecRestore /\ WF_vars(RestoreDone)

\* ------------------------------------------------------------------------
\* C30
\* ------------------------------------------------------------------------

\* C30: whenever a restore, of a session or of a single tab, has returned
\* successfully, the ViewState becomes Idle in the end, whatever progress
\* callbacks were delivered while it ran.
C30_RestoredThenIdle == [](call.op = "restored" => <>(state = "Idle"))

\* ------------------------------------------------------------------------
\* The popup and the viewer open together on one chrome.storage.local
\* ------------------------------------------------------------------------

\* the tab lists of the window the popup collapses
PageTabs ==
    { TabList(<< 2, 1 >>, << << "w", ".", "b", ".", "a" >>, << "b", ".", "a" >> >>) }

\* a session archived by an earlier version, whose extractor kept the host
\* as the domain
Archived ==
    CollapsedSession(new_v4(1), CreatedName, 1,
        << SavedTab(<< "w", ".", "b", ".", "a" >>, << "t" >>,
                    << "w", ".", "b", ".", "a" >>, TRUE),
           SavedTab(<< "b", ".", "a" >>, << "t" >>, << "b", ".", "a" >>, FALSE) >>)

InitPages ==
    /\ component = "pages"
    /\ tabs \in PageTabs
    /\ \/ persisted = None /\ clock = 0
       \/ /\ persisted = Some(serialize_storage(add_session(new, Archived)))
          /\ clock = 1
    /\ app_state = "Idle"
    /\ task = NoTask
    /\ host_call = NoHostCall
    /\ panel = [ domain_stats |-> << >>, is_domains_expanded |-> FALSE ]
    /\ jobs = << >>
    /\ storage = new
    /\ fresh_adds = TRUE
    /\ call = [ op |-> "mount", id |-> "", url |-> << >>, len |-> 0 ]
    /\ writes = << >>
    /\ state = "Loading"
    /\ asked = {}
    /\ sorted = Unset
    /\ unique = Unset
    /\ IdleDomain /\ IdlePair /\ IdleCounts /\ IdleSerde

\* the popup collapses while the viewer loads, renames, deletes and saves,
\* one write of the viewer in flight at a time
NextPages ==
    \/ OnCollapse
    \/ GetTabsFailed
    \/ CollapseTabs
    \/ GetStorage
    \/ SetStorage
    \/ Progress
    \/ HostDone
    \/ LoadStorage
    \/ writes = << >> /\ OnDeleteSession
    \/ writes = << >> /\ OnSaveEdit
    \/ SaveStorage

SpecPages == InitPages /\ [][NextPages]_vars

\* ------------------------------------------------------------------------
\* C25
\* ------------------------------------------------------------------------

\* C25: a session held in chrome.storage.local stays there until the viewer
\* is asked to delete it: no write of the whole store, by the popup or by
\* the viewer, takes out a session nobody asked to delete.
KeptUntilDeleted ==
    \A id \in HeldIds(persisted) :
        id \in HeldIds(persisted') \/ id \in asked
C25_KeptUntilDeleted == [][KeptUntilDeleted]_vars

\* ------------------------------------------------------------------------
\* Sessions archived by the popup, then looked at in the viewer
\* ------------------------------------------------------------------------

\* the viewer page the popup has asked for comes up: collapsed_viewer with
\* its initial state
ViewerOpened ==
    /\ state = "None"
    /\ host_call.fn = "openCollapsedViewer"
    /\ state' = "Loading"
    /\ UNCHANGED << storage, clock, fresh_adds, call, persisted, writes, asked,
                    coreVars, serdeVars >>

\* the tab list of the window the popup collapses
ArchiveTabs == { TabList(<< 2 >>, << << "w", ".", "b", ".", "a" >> >>) }

\* the popup open on a store with the session of the earlier version, the
\* viewer not yet
InitCollapseThenView ==
    /\ component = "archive"
    /\ tabs \in ArchiveTabs
    /\ persisted = Some(serialize_storage(add_session(new, Archived)))
    /\ clock = 1
    /\ app_state = "Idle"
    /\ task = NoTask
    /\ host_call = NoHostCall
    /\ panel = [ domain_stats |-> << >>, is_domains_expanded |-> FALSE ]
    /\ jobs = << >>
    /\ storage = new
    /\ fresh_adds = TRUE
    /\ call = [ op |-> "mount", id |-> "", url |-> << >>, len |-> 0 ]
    /\ writes = << >>
    /\ state = "None"
    /\ asked = {}
    /\ sorted = Unset
    /\ unique = Unset
    /\ IdleDomain /\ IdlePair /\ IdleCounts /\ IdleSerde

\* the viewer with the session of the earlier version loaded
InitShelf ==
    /\ component = "shelf"
    /\ clock = 0
    /\ fresh_adds = TRUE
    /\ call = [ op |-> "load", id |-> "", url |-> << >>, len |-> 0 ]
    /\ storage = add_session(new, Archived)
    /\ persisted = Some(serialize_storage(storage))
    /\ writes = << >>
    /\ state = "Idle"
    /\ asked = {}
    /\ IdleCore /\ IdleSerde

InitArchive == InitCollapseThenView \/ InitShelf

\* the popup collapses until the viewer is opened, and the viewer then loads
\* the store and renames, deletes and saves, one write in flight at a time;
\* or the viewer, the store loaded, exports and restores
NextArchive ==
    \/ component = "archive" /\ state = "None" /\ OnCollapse
    \/ component = "archive" /\ state = "None" /\ OnViewCollapsed
    \/ component = "archive" /\ GetTabsFailed
    \/ component = "archive" /\ CollapseTabs
    \/ component = "archive" /\ GetStorage
    \/ component = "archive" /\ SetStorage
    \/ component = "archive" /\ Progress
    \/ component = "archive" /\ HostDone
    \/ component = "archive" /\ ViewerOpened
    \/ component = "archive" /\ LoadStorage
    \/ component = "archive" /\ state # "None" /\ writes = << >> /\ OnDeleteTab
    \/ component = "archive" /\ state # "None" /\ writes = << >> /\ OnDeleteSession
    \/ component = "archive" /\ state # "None" /\ writes = << >> /\ OnSaveEdit
    \/ component = "archive" /\ SaveStorage
    \/ component = "shelf" /\ OnExport
    \/ component = "shelf" /\ OnRestoreSession
    \/ component = "shelf" /\ OnRestoreTab
    \/ component = "shelf" /\ RestoreProgress
    \/ component = "shelf" /\ RestoreDone

SpecArchive == InitArchive /\ [][NextArchive]_vars

\* ------------------------------------------------------------------------
\* C22
\* ------------------------------------------------------------------------

\* the SavedTabs of a store, each with the id of its session
TabsOf(d) ==
    UNION { { << d.sessions[i].id, d.sessions[i].tabs[k] >> :
                k \in DOMAIN d.sessions[i].tabs } :
            i \in DOMAIN d.sessions }

\* the SavedTabs chrome.storage.local holds, as they are written
HeldTabs(held) ==
    LET ss == HeldSessions(held)
        tabs_of(i) == EntryOf(ss[i], "tabs").v
        tab(t) == SavedTab(EntryOf(t, "url").v, EntryOf(t, "title").v,
                           EntryOf(t, "domain").v, EntryOf(t, "pinned").v)
    IN  UNION { { << EntryOf(ss[i], "id").v, tab(tabs_of(i)[k]) >> :
                    k \in DOMAIN tabs_of(i) } :
                i \in DOMAIN ss }

\* the SavedTabs of the session the popup has built and of the store it is
\* about to write
TaskTabs(t) ==
    (IF t.session = None THEN {}
     ELSE TabsOf([ sessions |-> << t.session[1] >> ]))
        \cup (IF t.storage = None THEN {} ELSE TabsOf(t.storage[1]))

\* the SavedTabs of the stores the viewer has still to write
QueuedTabs(queue) == UNION { TabsOf(queue[k]) : k \in DOMAIN queue }

\* every SavedTab there is: held in chrome.storage.local, in the store of
\* the viewer, in a store the viewer has still to write, in the session the
\* popup has built and in the store the popup is about to write
StoredTabs(held, store, queue, t) ==
    HeldTabs(held) \cup TabsOf(store) \cup QueuedTabs(queue) \cup TaskTabs(t)

\* the SavedTab, of the session the popup builds in this step, is that of
\* an open tab with the domain extracted from its URL
ArchivedNow(x) ==
    /\ task.session = None
    /\ task'.session # None
    /\ x[1] = task'.session[1].id
    /\ \E p \in DOMAIN tabs :
        /\ extract_domain(tabs[p].url) # None
        /\ x[2] = SavedTab(tabs[p].url, tabs[p].title,
                           extract_domain(tabs[p].url)[1], tabs[p].pinned)

\* C22: a SavedTab gets its domain when the popup archives the tab, as
\* extract_domain of the URL, and from then on no step changes it: whatever
\* SavedTab is stored anywhere after a step, of whatever session, was stored
\* with the same url, title, domain and pinned flag before the step, or is
\* archived by the step.
TabsFrozen ==
    LET before == StoredTabs(persisted, storage, writes, task)
        kept(after) == \A x \in after : x \in before \/ ArchivedNow(x)
    IN  /\ persisted' # persisted => kept(HeldTabs(persisted'))
        /\ storage' # storage => kept(TabsOf(storage'))
        /\ writes' # writes => kept(QueuedTabs(writes'))
        /\ task' # task => kept(TaskTabs(task'))
C22_TabsFrozen == [][TabsFrozen]_vars

\* the session of the earlier version was renamed and lost its second tab,
\* and was written: its first tab still has the host as its domain, next to
\* a tab with the same URL archived now under the domain extracted now
C22_Witness ==
    /\ state = "Idle"
    /\ writes = << >>
    /\ persisted = Some(serialize_storage(storage))
    /\ Len(storage.sessions) = 2
    /\ storage.sessions[1].name = "work"
    /\ storage.sessions[1].tabs = << Archived.tabs[1] >>
    /\ Len(storage.sessions[2].tabs) = 1
    /\ storage.sessions[2].tabs[1].url = Archived.tabs[1].url
    /\ storage.sessions[2].tabs[1].domain = << "b", ".", "a" >>


=============================================================================
